------------------------ MODULE QueueControl_proofs ------------------------
(***************************************************************************)
(* Proofs about QueueControl, for any queues, worker threads and NBLs.     *)
(***************************************************************************)
EXTENDS QueueControl, FiniteSetTheorems, TLAPS

\* The NBLs that a rundown reference protects.
Inside == {n \in Nbls : place[n] # "os"}

\* Those of them that may be completed.
Waiting == {n \in Nbls : place[n] \in {"queued", "ring"}}

StoppedApp == {"setStopped", "checkStopped", "waitStopped", "stopped", "destroyed"}

\* The gate: EmptyWhenStopped follows from the wait for the references at Drain
\* only if nobody can acquire one any more when that wait begins.
GateInv ==
  /\ rundown \in [closed : BOOLEAN, refs : Nat]
  /\ place \in [Nbls -> {"os", "held", "queued", "ring"}]
  /\ target \in [Nbls -> TxQueues \cup {NoOne}]
  /\ sender \in [Nbls -> {"idle", "acquire", "enqueue", "look", "signal"}]
  /\ ReferencesMatchNbls /\ EmptyWhenStopped
  /\ app = "drain" => rundown.closed
  /\ \A n \in Nbls : /\ sender[n] = "acquire" => place[n] = "os"
                     /\ sender[n] = "enqueue" => place[n] = "held"

-----------------------------------------------------------------------------
LEMMA InsideFinite == IsFiniteSet(Inside)
  <1>1. Inside \in SUBSET Nbls
    BY DEF Inside
  <1> QED BY <1>1, ThreadsAssumption, FS_Subset

\* Completing NBLs that are inside gives up one reference for each of them.
LEMMA CompleteKeepsGate ==
  ASSUME GateInv, NEW S, S \subseteq Waiting, Complete(S), UNCHANGED <<app, sender>>
  PROVE  GateInv'
  <1>1. Inside' = Inside \ S
    BY DEF Inside, Waiting, Complete, GateInv
  <1>2. Cardinality(Inside') = Cardinality(Inside) - Cardinality(S)
    <2>1. Inside \cap S = S
      BY DEF Inside, Waiting
    <2> QED BY <1>1, <2>1, InsideFinite, FS_Difference
  <1>3. Cardinality(Inside) \in Nat /\ Cardinality(Inside') \in Nat
    <2>1. IsFiniteSet(Inside')
      BY <1>1, InsideFinite, FS_Difference
    <2> QED BY <2>1, InsideFinite, FS_CardinalityType
  <1>4. Cardinality(S) \in Nat
    <2>1. S \in SUBSET Inside
      BY DEF Inside, Waiting
    <2> QED BY <2>1, InsideFinite, FS_Subset, FS_CardinalityType
  <1>5. rundown.refs = Cardinality(Inside) /\ rundown.closed \in BOOLEAN
    BY DEF GateInv, ReferencesMatchNbls, Inside
  <1>6. rundown'.refs = Cardinality(Inside') /\ rundown'.closed = rundown.closed
    BY <1>2, <1>3, <1>4, <1>5 DEF Complete, GateInv
  <1>7. rundown' \in [closed : BOOLEAN, refs : Nat]
    <2>1. rundown' = [closed |-> rundown'.closed, refs |-> rundown'.refs]
      BY DEF Complete, GateInv
    <2>2. rundown'.closed \in BOOLEAN /\ rundown'.refs \in Nat
      BY <1>3, <1>5, <1>6
    <2> QED BY <2>1, <2>2
  <1>8. /\ place' \in [Nbls -> {"os", "held", "queued", "ring"}]
        /\ target' \in [Nbls -> TxQueues \cup {NoOne}]
    BY DEF Complete, GateInv
  <1>9. ReferencesMatchNbls'
    BY <1>6 DEF ReferencesMatchNbls, Inside
  <1>10. \A n \in Nbls : place[n] \in {"os", "held"} => place'[n] = place[n]
    BY DEF Complete, GateInv, Waiting
  <1>11. EmptyWhenStopped'
    BY <1>6, <1>10 DEF EmptyWhenStopped, GateInv
  <1> QED BY <1>6, <1>7, <1>8, <1>9, <1>10, <1>11 DEF GateInv

\* A step that moves NBLs among the places inside and leaves the gate alone.
LEMMA MoveKeepsGate ==
  ASSUME GateInv, UNCHANGED <<rundown, app, sender>>,
         place' \in [Nbls -> {"os", "held", "queued", "ring"}],
         target' \in [Nbls -> TxQueues \cup {NoOne}],
         \A n \in Nbls : place[n] # place'[n] =>
                            {place[n], place'[n]} \subseteq {"queued", "ring"}
  PROVE  GateInv'
  <1>1. {n \in Nbls : place[n] # "os"} = {n \in Nbls : place'[n] # "os"}
    OBVIOUS
  <1>2. ReferencesMatchNbls'
    BY <1>1 DEF GateInv, ReferencesMatchNbls
  <1>3. EmptyWhenStopped'
    BY DEF GateInv, EmptyWhenStopped
  <1> QED BY <1>2, <1>3 DEF GateInv

\* A step that leaves the NBLs and the gate alone, and does not take the app into
\* a stopped state or into the wait at Drain.
LEMMA AppKeepsGate ==
  ASSUME GateInv, UNCHANGED <<rundown, traffic>>,
         app' \in StoppedApp => app \in StoppedApp,
         app' = "drain" => app = "drain"
  PROVE  GateInv'
  BY DEF GateInv, ReferencesMatchNbls, EmptyWhenStopped, StoppedApp, traffic

-----------------------------------------------------------------------------
LEMMA AppGate ==
  ASSUME GateInv, AppStep
  PROVE  GateInv'
  <1>1. CASE SetTxHandler
    <2>1. \A n \in Nbls : place[n] = "os"
      BY <1>1 DEF SetTxHandler, GateInv, EmptyWhenStopped
    <2>2. UNCHANGED traffic /\ app' = "setStarted"
          /\ rundown' = [closed |-> FALSE, refs |-> 0]
      BY <1>1 DEF SetTxHandler
    <2>3. {n \in Nbls : place'[n] # "os"} = {}
      BY <2>1, <2>2 DEF traffic
    <2>4. ReferencesMatchNbls'
      BY <2>2, <2>3, FS_EmptySet DEF ReferencesMatchNbls
    <2>5. EmptyWhenStopped'
      BY <2>2 DEF EmptyWhenStopped
    <2> QED BY <2>2, <2>4, <2>5 DEF GateInv, traffic
  <1>2. CASE CloseTxHandler
    BY <1>2, AppKeepsGate DEF CloseTxHandler, StoppedApp
  <1>3. CASE CloseRundown
    <2>1. app = "close" /\ app' = "drain" /\ UNCHANGED traffic
          /\ rundown' = [rundown EXCEPT !.closed = TRUE]
      BY <1>3 DEF CloseRundown
    <2>2. rundown' = [closed |-> TRUE, refs |-> rundown.refs] /\ rundown.refs \in Nat
      BY <2>1 DEF GateInv
    <2>3. rundown' \in [closed : BOOLEAN, refs : Nat]
      BY <2>2
    <2>4. ReferencesMatchNbls'
      BY <2>1, <2>2 DEF ReferencesMatchNbls, GateInv, traffic
    <2>5. EmptyWhenStopped'
      BY <2>1 DEF EmptyWhenStopped
    <2> QED BY <2>1, <2>2, <2>3, <2>4, <2>5 DEF GateInv, traffic
  <1>4. CASE Drain
    <2>1. rundown.refs = 0 /\ rundown.closed /\ UNCHANGED <<rundown, traffic>>
          /\ app' = "setStopped"
      BY <1>4 DEF Drain, gate, GateInv
    <2>2. Inside = {}
      BY <2>1, InsideFinite, FS_EmptySet DEF GateInv, ReferencesMatchNbls, Inside
    <2>3. \A n \in Nbls : place'[n] = "os"
      BY <2>1, <2>2 DEF Inside, traffic
    <2> QED BY <2>1, <2>3 DEF GateInv, ReferencesMatchNbls, EmptyWhenStopped, traffic
  <1>5. ASSUME NEW from, NEW state, NEW to, SetDatapathState(from, state, to),
               to \in StoppedApp => from \in StoppedApp, to # "drain"
        PROVE  GateInv'
    BY <1>5, AppKeepsGate DEF SetDatapathState, gate
  <1>6. ASSUME NEW at, NEW blocked \in DOMAIN WaitsFor, BeginWait(at, blocked),
               blocked \in StoppedApp \/ WaitsFor[blocked] \in StoppedApp
                 => at \in StoppedApp
        PROVE  GateInv'
    BY <1>6, AppKeepsGate DEF BeginWait, gate, WaitsFor
  <1>7. CASE DestroyQueues \/ CreateDatapath
    BY <1>7, AppKeepsGate DEF DestroyQueues, CreateDatapath, gate, StoppedApp
  <1> QED
    BY <1>1, <1>2, <1>3, <1>4, <1>5, <1>6, <1>7 DEF AppStep, StoppedApp, WaitsFor

LEMMA QueueGate ==
  ASSUME GateInv, CreateRxScalingQueues \/ SignalRss \/ PeerStep
  PROVE  GateInv'
  <1>1. CASE CreateRxScalingQueues \/ SignalRss
    BY <1>1, AppKeepsGate DEF CreateRxScalingQueues, SignalRss, gate
  <1>2. CASE PeerStop \/ PeerDestroy
    BY <1>2, AppKeepsGate DEF PeerStop, PeerDestroy, gate
  <1>3. ASSUME NEW q \in PeerQueues, DestroyOnDemandQueue(q)
        PROVE  GateInv'
    <2>1. UNCHANGED <<app, sender>>
      BY <1>3 DEF DestroyOnDemandQueue
    <2>2. CASE UNCHANGED <<place, target, rundown>>
      BY <2>1, <2>2, AppKeepsGate DEF traffic
    <2>3. CASE Complete(In("queued", q))
      BY <2>1, <2>3, CompleteKeepsGate DEF In, Waiting
    <2> QED BY <1>3, <2>2, <2>3 DEF DestroyOnDemandQueue
  <1> QED BY <1>1, <1>2, <1>3 DEF PeerStep

LEMMA WorkerGate ==
  ASSUME GateInv, NEW w \in Workers, WorkerStep(w)
  PROVE  GateInv'
  <1>1. CASE CancelQueues(w)
    <2> DEFINE S == UNION {In("queued", q) : q \in {t \in TxQueues : life[t] = "created"}}
    <2>1. S \subseteq Waiting
      BY DEF In, Waiting
    <2>2. Complete(S) /\ UNCHANGED <<app, sender>>
      BY <1>1 DEF CancelQueues
    <2> HIDE DEF S
    <2> QED BY <2>1, <2>2, CompleteKeepsGate
  <1>2. CASE IsDatapathStateSynchronized(w)
    BY <1>2, AppKeepsGate
    DEF IsDatapathStateSynchronized, WaitsFor, StoppedApp, gate
  <1>3. CASE TakeWork(w) \/ LockSync(w) \/ CreateFails(w) \/ AllStarted(w)
    BY <1>3, AppKeepsGate DEF TakeWork, LockSync, CreateFails, AllStarted, gate
  <1>4. CASE NotCancelled(w) \/ NoneStarted(w)
    BY <1>4, AppKeepsGate DEF NotCancelled, NoneStarted, gate
  <1>5. ASSUME NEW q \in Queues, CreateQueue(w, q) \/ StartQueue(w, q)
                                  \/ QueueStarted(w, q) \/ StopCancelled(w, q)
        PROVE  GateInv'
    BY <1>5, AppKeepsGate
    DEF CreateQueue, StartQueue, QueueStarted, StopCancelled, gate
  <1> QED BY <1>1, <1>2, <1>3, <1>4, <1>5 DEF WorkerStep

LEMMA PollGate ==
  ASSUME GateInv, NEW q \in Queues, PollStep(q)
  PROVE  GateInv'
  <1>1. CASE TransmitNbls(q)
    <2>1. /\ place' \in [Nbls -> {"os", "held", "queued", "ring"}]
          /\ \A n \in Nbls : place[n] # place'[n] =>
                              {place[n], place'[n]} \subseteq {"queued", "ring"}
      BY <1>1 DEF TransmitNbls, In, GateInv
    <2> QED BY <1>1, <2>1, MoveKeepsGate DEF TransmitNbls, gate, GateInv
  <1>2. CASE DrainCompletions(q)
    <2>1. PICK S \in SUBSET In("ring", q) : Complete(S)
      BY <1>2 DEF DrainCompletions
    <2>2. S \subseteq Waiting /\ UNCHANGED <<app, sender>>
      BY <1>2, <2>1 DEF DrainCompletions, In, Waiting
    <2> QED BY <2>1, <2>2, CompleteKeepsGate
  <1>3. CASE TransmitNblsStopping(q)
    <2>1. In("queued", q) \subseteq Waiting /\ Complete(In("queued", q))
          /\ UNCHANGED <<app, sender>>
      BY <1>3 DEF TransmitNblsStopping, In, Waiting
    <2> QED BY <2>1, CompleteKeepsGate
  <1> QED BY <1>1, <1>2, <1>3 DEF PollStep

LEMMA SendGate ==
  ASSUME GateInv, NEW n \in Nbls, Send(n) \/ SendOn(n)
  PROVE  GateInv'
  <1>1. CASE ReadTxClosed(n)
    BY <1>1 DEF ReadTxClosed, GateInv, ReferencesMatchNbls, EmptyWhenStopped, gate
  <1>2. CASE Reject(n) \/ LookNotStarted(n)
    <2>1. /\ UNCHANGED <<rundown, app, place, target>>
          /\ \/ sender' = [sender EXCEPT ![n] = "idle"]
             \/ sender' = [sender EXCEPT ![n] = "signal"]
      BY <1>2 DEF Reject, LookNotStarted, gate
    <2>2. ReferencesMatchNbls' /\ EmptyWhenStopped'
      BY <2>1 DEF GateInv, ReferencesMatchNbls, EmptyWhenStopped
    <2> QED BY <2>1, <2>2 DEF GateInv
  <1>3. ASSUME NEW q \in TxQueues, TryAcquire(n, q)
        PROVE  GateInv'
    <2>1. /\ place[n] = "os" /\ ~rundown.closed
          /\ place' = [place EXCEPT ![n] = "held"]
          /\ rundown' = [rundown EXCEPT !.refs = rundown.refs + 1]
          /\ app' = app /\ sender' = [sender EXCEPT ![n] = "enqueue"]
          /\ target' = [target EXCEPT ![n] = q]
      BY <1>3 DEF TryAcquire, GateInv
    <2>2. Inside' = Inside \cup {n} /\ n \notin Inside
      BY <2>1 DEF Inside, GateInv
    <2>3. Cardinality(Inside') = Cardinality(Inside) + 1
      BY <2>2, InsideFinite, FS_AddElement
    <2>4. rundown.refs = Cardinality(Inside) /\ rundown.refs \in Nat
      BY DEF GateInv, ReferencesMatchNbls, Inside
    <2>5. rundown' = [closed |-> rundown.closed, refs |-> rundown.refs + 1]
      BY <2>1 DEF GateInv
    <2>6. rundown' \in [closed : BOOLEAN, refs : Nat]
      <3>1. rundown.refs + 1 \in Nat
        BY <2>4
      <3>2. rundown.closed \in BOOLEAN
        BY DEF GateInv
      <3> QED BY <2>5, <3>1, <3>2
    <2>7. ReferencesMatchNbls'
      BY <2>3, <2>4, <2>5 DEF ReferencesMatchNbls, Inside
    <2>8. EmptyWhenStopped'
      BY <2>1 DEF EmptyWhenStopped, GateInv
    <2>9. sender' \in [Nbls -> {"idle", "acquire", "enqueue", "look", "signal"}]
          /\ place' \in [Nbls -> {"os", "held", "queued", "ring"}]
          /\ target' \in [Nbls -> TxQueues \cup {NoOne}]
      BY <2>1 DEF GateInv
    <2>10. app' # "drain"
      BY <2>1 DEF GateInv
    <2>11. \A m \in Nbls : /\ sender'[m] = "acquire" => place'[m] = "os"
                           /\ sender'[m] = "enqueue" => place'[m] = "held"
      BY <2>1 DEF GateInv
    <2> QED BY <2>6, <2>7, <2>8, <2>9, <2>10, <2>11 DEF GateInv
  <1>4. CASE Enqueue(n)
    <2>1. /\ place[n] = "held" /\ place' = [place EXCEPT ![n] = "queued"]
          /\ sender' = [sender EXCEPT ![n] = "look"]
          /\ UNCHANGED <<rundown, app, target>>
      BY <1>4 DEF Enqueue, GateInv, gate
    <2>2. {m \in Nbls : place'[m] # "os"} = {m \in Nbls : place[m] # "os"}
      BY <2>1 DEF GateInv
    <2>3. ReferencesMatchNbls'
      BY <2>1, <2>2 DEF GateInv, ReferencesMatchNbls
    <2>4. EmptyWhenStopped'
      BY <2>1 DEF GateInv, EmptyWhenStopped
    <2> QED BY <2>1, <2>3, <2>4 DEF GateInv
  <1>5. CASE LookStarted(n) \/ SignalQueueStateChange(n)
    <2>1. /\ UNCHANGED <<rundown, app, place>>
          /\ sender' = [sender EXCEPT ![n] = "idle"]
          /\ target' \in [Nbls -> TxQueues \cup {NoOne}]
      BY <1>5 DEF LookStarted, SignalQueueStateChange, Leave, GateInv, gate
    <2> QED BY <2>1 DEF GateInv, ReferencesMatchNbls, EmptyWhenStopped
  <1> QED BY <1>1, <1>2, <1>3, <1>4, <1>5 DEF Send, SendOn

\* The references of the rundown are those of the NBLs inside, and none is left when
\* the datapath stops: nxnbldatapath.cpp SetTxHandler, SendNetBufferListsComplete.
THEOREM GateInvariant == Spec => []GateInv
  <1>1. Init => GateInv
    <2> SUFFICES ASSUME Init PROVE GateInv
      OBVIOUS
    <2>1. {n \in Nbls : place[n] # "os"} = {}
      BY DEF Init
    <2>2. ReferencesMatchNbls
      BY <2>1, FS_EmptySet DEF Init, ReferencesMatchNbls
    <2> QED BY <2>2 DEF Init, GateInv, EmptyWhenStopped
  <1>2. GateInv /\ [Next]_vars => GateInv'
    <2> SUFFICES ASSUME GateInv, [Next]_vars PROVE GateInv'
      OBVIOUS
    <2>1. CASE UNCHANGED vars
      BY <2>1 DEF vars, gate, traffic, GateInv, ReferencesMatchNbls, EmptyWhenStopped
    <2>2. CASE AppStep \/ CreateRxScalingQueues \/ SignalRss \/ PeerStep
      BY <2>2, AppGate, QueueGate
    <2>3. CASE \E w \in Workers : WorkerStep(w)
      BY <2>3, WorkerGate
    <2>4. CASE \E q \in Queues : PollStep(q)
      BY <2>4, PollGate
    <2>5. CASE \E n \in Nbls : Send(n) \/ SendOn(n)
      BY <2>5, SendGate
    <2> QED BY <2>1, <2>2, <2>3, <2>4, <2>5 DEF Next, Halted
  <1> QED BY <1>1, <1>2, PTL DEF Spec

\* Each NBL inside the gate holds one reference, whoever completes it in the end.
THEOREM ReferencesMatchNblsAlways == Spec => []ReferencesMatchNbls
  <1>1. GateInv => ReferencesMatchNbls
    BY DEF GateInv
  <1> QED BY <1>1, GateInvariant, PTL

\* Nothing is left behind, and nothing gets in, once StopDatapath has waited.
THEOREM EmptyWhenStoppedAlways == Spec => []EmptyWhenStopped
  <1>1. GateInv => EmptyWhenStopped
    BY DEF GateInv
  <1> QED BY <1>1, GateInvariant, PTL

-----------------------------------------------------------------------------
(***************************************************************************)
(* Type correctness.  GateInv types the gate and the NBLs.                 *)
(***************************************************************************)
Ats == {"idle", "sync", "locked", "starting", "check"}
States == {"Started", "Stopping", "Stopped"}
WorkerRecords == [at : Ats, seen : States, changed : BOOLEAN]
WorkerType == worker \in [Workers -> WorkerRecords]

PeerType == peer \in [at : {"idle", "stop", "destroy"}, queue : PeerQueues \cup {NoOne}]

LifeType ==
  /\ life \in [Queues -> {"absent", "provisioned", "created", "starting", "started",
                          "stopping"}]
  /\ readyToStop \in [Queues -> BOOLEAN]

FlagType ==
  /\ datapath \in States
  /\ event \in BOOLEAN /\ workQueued \in BOOLEAN /\ txClosed \in BOOLEAN
  /\ syncLock \in Workers \cup {"peer", NoOne}
  /\ app \in {"stopped", "setStarted", "checkStarted", "started", "setStopping",
              "checkStopping", "close", "drain", "setStopped", "checkStopped",
              "destroyed"} \cup DOMAIN WaitsFor
  /\ rss \in {"off", "signal", "on"}
  /\ failed \in {None, "IsQueuing", "IsStopping"}

Types == FlagType /\ LifeType /\ PeerType /\ WorkerType

\* The updates of a worker's record keep its type.
LEMMA WorkerUpdate ==
  ASSUME WorkerType, NEW w \in Workers
  PROVE  /\ \A a \in Ats : worker' = [worker EXCEPT ![w].at = a] => WorkerType'
         /\ \A c \in BOOLEAN : worker' = [worker EXCEPT ![w].changed = c] => WorkerType'
         /\ \A r \in WorkerRecords : worker' = [worker EXCEPT ![w] = r] => WorkerType'
  <1>1. worker[w] = [at |-> worker[w].at, seen |-> worker[w].seen,
                     changed |-> worker[w].changed]
        /\ worker[w].at \in Ats /\ worker[w].seen \in States
        /\ worker[w].changed \in BOOLEAN
    BY DEF WorkerType, WorkerRecords
  <1>2. ASSUME NEW r \in WorkerRecords, worker' = [worker EXCEPT ![w] = r]
        PROVE  WorkerType'
    BY <1>2 DEF WorkerType
  <1>3. ASSUME NEW a \in Ats, worker' = [worker EXCEPT ![w].at = a]
        PROVE  WorkerType'
    <2> DEFINE r == [worker[w] EXCEPT !.at = a]
    <2>1. r = [at |-> a, seen |-> worker[w].seen, changed |-> worker[w].changed]
      BY <1>1
    <2>2. r \in WorkerRecords
      BY <1>1, <2>1 DEF WorkerRecords
    <2>3. worker' = [worker EXCEPT ![w] = r]
      BY <1>3
    <2> HIDE DEF r
    <2> QED BY <1>2, <2>2, <2>3
  <1>4. ASSUME NEW c \in BOOLEAN, worker' = [worker EXCEPT ![w].changed = c]
        PROVE  WorkerType'
    <2> DEFINE r == [worker[w] EXCEPT !.changed = c]
    <2>1. r = [at |-> worker[w].at, seen |-> worker[w].seen, changed |-> c]
      BY <1>1
    <2>2. r \in WorkerRecords
      BY <1>1, <2>1 DEF WorkerRecords
    <2>3. worker' = [worker EXCEPT ![w] = r]
      BY <1>4
    <2> HIDE DEF r
    <2> QED BY <1>2, <2>2, <2>3
  <1> QED BY <1>2, <1>3, <1>4

LEMMA AppTypes ==
  ASSUME Types, AppStep
  PROVE  Types'
  <1>1. UNCHANGED <<worker, peer, rss, syncLock>>
    BY DEF AppStep, SetTxHandler, CloseTxHandler, CloseRundown, Drain, SetDatapathState,
           BeginWait, DestroyQueues, CreateDatapath, work
  <1>2. LifeType'
    BY DEF AppStep, SetTxHandler, CloseTxHandler, CloseRundown, Drain, SetDatapathState,
           BeginWait, DestroyQueues, CreateDatapath, queues, NewLife, Types, LifeType
  <1>3. FlagType'
    BY <1>1, ZenonT(40)
    DEF AppStep, SetTxHandler, CloseTxHandler, CloseRundown, Drain, SetDatapathState,
        BeginWait, DestroyQueues, CreateDatapath, Types, FlagType, States, WaitsFor, Ok,
        QueueWork, work, gate
  <1> QED BY <1>1, <1>2, <1>3 DEF Types, PeerType, WorkerType

LEMMA QueueTypes ==
  ASSUME Types, CreateRxScalingQueues \/ SignalRss \/ PeerStep
  PROVE  Types'
  <1>1. UNCHANGED worker
    BY DEF CreateRxScalingQueues, SignalRss, PeerStep, DestroyOnDemandQueue, PeerStop,
           PeerDestroy, work
  <1>2. FlagType'
    BY DEF CreateRxScalingQueues, SignalRss, PeerStep, DestroyOnDemandQueue, PeerStop,
           PeerDestroy, Types, FlagType, Ok, QueueWork, work, gate
  <1>3. LifeType'
    BY DEF CreateRxScalingQueues, SignalRss, PeerStep, DestroyOnDemandQueue, PeerStop,
           PeerDestroy, StopQueue, Types, LifeType, queues
  <1>4. PeerType'
    <2>1. CASE CreateRxScalingQueues \/ SignalRss
      BY <2>1 DEF CreateRxScalingQueues, SignalRss, Types, PeerType
    <2>2. ASSUME NEW q \in PeerQueues, DestroyOnDemandQueue(q)
          PROVE  PeerType'
      BY <2>2 DEF DestroyOnDemandQueue, PeerType
    <2>3. CASE PeerStop
      <3>1. peer' = [at |-> "destroy", queue |-> peer.queue]
            /\ peer.queue \in PeerQueues \cup {NoOne}
        BY <2>3 DEF PeerStop, Types, PeerType
      <3> QED BY <3>1 DEF PeerType
    <2>4. CASE PeerDestroy
      BY <2>4 DEF PeerDestroy, Types, PeerType
    <2> QED BY <2>1, <2>2, <2>3, <2>4 DEF PeerStep
  <1> QED BY <1>1, <1>2, <1>3, <1>4 DEF Types, WorkerType

LEMMA WorkerTypes ==
  ASSUME Types, NEW w \in Workers, WorkerStep(w)
  PROVE  Types'
  <1>1. UNCHANGED <<peer, rss, datapath, txClosed>>
    BY DEF WorkerStep, TakeWork, LockSync, CreateFails, AllStarted, CancelQueues,
           NotCancelled, NoneStarted, IsDatapathStateSynchronized, CreateQueue,
           StartQueue, QueueStarted, StopCancelled, gate
  <1>2. FlagType'
    <2>1. CASE IsDatapathStateSynchronized(w)
      <3>1. app' = app \/ app' \in {"started", "close", "stopped"}
        BY <2>1 DEF IsDatapathStateSynchronized, WaitsFor
      <3>2. UNCHANGED <<workQueued, syncLock, failed>>
        BY <2>1 DEF IsDatapathStateSynchronized, Ok
      <3>3. event' = TRUE \/ event' = event
        BY <2>1 DEF IsDatapathStateSynchronized
      <3> QED BY <1>1, <3>1, <3>2, <3>3 DEF Types, FlagType
    <2>2. CASE TakeWork(w) \/ LockSync(w)
      BY <1>1, <2>2 DEF TakeWork, LockSync, Types, FlagType, Ok
    <2>3. CASE CreateFails(w) \/ AllStarted(w) \/ CancelQueues(w) \/ NoneStarted(w)
      BY <1>1, <2>3
      DEF CreateFails, AllStarted, CancelQueues, NoneStarted, Unlock, Types, FlagType, Ok
    <2>4. CASE NotCancelled(w)
      BY <1>1, <2>4 DEF NotCancelled, work, Types, FlagType
    <2>5. ASSUME NEW q \in Queues,
                 \/ CreateQueue(w, q) \/ StartQueue(w, q) \/ QueueStarted(w, q)
                 \/ StopCancelled(w, q)
          PROVE  FlagType'
      BY <1>1, <2>5
      DEF CreateQueue, StartQueue, QueueStarted, StopCancelled, Unlock, Types, FlagType, Ok
    <2> QED BY <2>1, <2>2, <2>3, <2>4, <2>5 DEF WorkerStep
  <1>3. LifeType'
    BY DEF WorkerStep, TakeWork, LockSync, CreateFails, AllStarted, CancelQueues,
           NotCancelled, NoneStarted, IsDatapathStateSynchronized, CreateQueue,
           StartQueue, QueueStarted, StopCancelled, StopQueue, Types, LifeType, queues
  <1>4. WorkerType'
    <2>1. ASSUME NEW again, Unlock(w, again)
          PROVE  WorkerType'
      <3> DEFINE r == [at |-> IF again THEN "sync" ELSE "check", seen |-> "Stopped",
                       changed |-> FALSE]
      <3>1. r \in WorkerRecords /\ worker' = [worker EXCEPT ![w] = r]
        BY <2>1 DEF Unlock, WorkerRecords, Ats, States
      <3> HIDE DEF r
      <3> QED BY <3>1, WorkerUpdate DEF Types
    <2>2. CASE LockSync(w)
      <3> DEFINE r == [at |-> "locked", seen |-> datapath, changed |-> FALSE]
      <3>1. r \in WorkerRecords
        BY DEF Types, FlagType, WorkerRecords, Ats
      <3>2. worker' = [worker EXCEPT ![w] = r]
        BY <2>2 DEF LockSync
      <3> HIDE DEF r
      <3> QED BY <3>1, <3>2, WorkerUpdate DEF Types
    <2>3. CASE TakeWork(w) \/ IsDatapathStateSynchronized(w)
      <3>1. \E a \in {"sync", "idle"} : worker' = [worker EXCEPT ![w].at = a]
        BY <2>3 DEF TakeWork, IsDatapathStateSynchronized
      <3> QED BY <3>1, WorkerUpdate DEF Types, Ats
    <2>4. CASE CreateFails(w) \/ AllStarted(w) \/ CancelQueues(w) \/ NoneStarted(w)
      BY <2>1, <2>4 DEF CreateFails, AllStarted, CancelQueues, NoneStarted
    <2>5. CASE NotCancelled(w)
      BY <2>5 DEF NotCancelled, work, Types, WorkerType
    <2>6. ASSUME NEW q \in Queues, CreateQueue(w, q) \/ QueueStarted(w, q)
          PROVE  WorkerType'
      BY <2>1, <2>6 DEF CreateQueue, QueueStarted
    <2>7. ASSUME NEW q \in Queues, StartQueue(w, q) \/ StopCancelled(w, q)
          PROVE  WorkerType'
      BY <2>7, WorkerUpdate DEF StartQueue, StopCancelled, Types, Ats
    <2> QED BY <2>2, <2>3, <2>4, <2>5, <2>6, <2>7 DEF WorkerStep
  <1> QED BY <1>1, <1>2, <1>3, <1>4 DEF Types, PeerType

LEMMA PollTypes ==
  ASSUME Types, NEW q \in Queues, PollStep(q)
  PROVE  Types'
  BY DEF PollStep, TransmitNbls, DrainCompletions, TransmitNblsStopping, Types, FlagType,
         LifeType, PeerType, WorkerType, Ok, work, queues, gate

LEMMA SendTypes ==
  ASSUME Types, NEW n \in Nbls, Send(n) \/ SendOn(n)
  PROVE  Types'
  BY ZenonT(40) DEF Send, SendOn, ReadTxClosed, Reject, TryAcquire, Enqueue, LookStarted,
         LookNotStarted, SignalQueueStateChange, QueueWork, Types, FlagType, LifeType,
         PeerType, WorkerType, Ok, work, queues, gate

\* The control's state, apart from the gate.
THEOREM TypesInvariant == Spec => []Types
  <1>1. Init => Types
    <2> SUFFICES ASSUME Init PROVE Types
      OBVIOUS
    <2>1. FlagType
      BY DEF Init, FlagType, States
    <2>2. LifeType
      BY DEF Init, LifeType, NewLife
    <2>3. PeerType
      BY DEF Init, PeerType
    <2>4. WorkerType
      <3> DEFINE r == [at |-> "idle", seen |-> "Stopped", changed |-> FALSE]
      <3>1. r \in WorkerRecords
        BY DEF WorkerRecords, Ats, States
      <3>2. worker = [w \in Workers |-> r]
        BY DEF Init
      <3> HIDE DEF r
      <3> QED BY <3>1, <3>2 DEF WorkerType
    <2> QED BY <2>1, <2>2, <2>3, <2>4 DEF Types
  <1>2. Types /\ [Next]_vars => Types'
    <2> SUFFICES ASSUME Types, [Next]_vars PROVE Types'
      OBVIOUS
    <2>1. CASE UNCHANGED vars
      BY <2>1 DEF vars, work, queues, gate, Types, FlagType, LifeType, PeerType, WorkerType
    <2>2. CASE Next
      BY <2>1, <2>2, AppTypes, QueueTypes, WorkerTypes, PollTypes, SendTypes
      DEF Next, Halted
    <2> QED BY <2>1, <2>2
  <1> QED BY <1>1, <1>2, PTL DEF Spec

\* The state of QueueControl stays well-typed; no rundown reference is released that
\* was not taken.
THEOREM TypeCorrect == Spec => []TypeOK
  <1>1. Types /\ GateInv => TypeOK
    BY DEF Types, FlagType, LifeType, PeerType, WorkerType, WorkerRecords, Ats, States,
           GateInv, TypeOK
  <1> QED BY <1>1, TypesInvariant, GateInvariant, PTL

-----------------------------------------------------------------------------
(***************************************************************************)
(* The work item and m_event.  For whatever m_state asks for and the queues *)
(* are not yet, there is somebody who does it or asks the work item for it. *)
(***************************************************************************)
\* The work item is queued or runs.
Working == workQueued \/ \E w \in Workers : worker[w].at # "idle"

\* A run of the work item that has yet to cancel the queues.
Cancels(w) == worker[w].at = "sync" \/ At(w, "Stopping")

\* The datapath that the app last asked for; it needs no event while it rests.
Resting == {"stopped", "setStarted", "destroyed"}
Asked == CASE app \in {"checkStarted", "waitStarted", "started", "setStopping"} -> "Started"
           [] app \in {"checkStopping", "waitStopping", "close", "drain", "setStopped"} -> "Stopping"
           [] OTHER -> "Stopped"

\* A queue to start has a run ahead of it, or is new, or is about to be destroyed.
StartsAhead ==
  datapath = "Started" =>
    \A q \in Queues : NeedsStart(q) =>
      Working \/ rss = "signal" \/ (peer.at = "destroy" /\ peer.queue = q)

\* A sender that has seen the queue started need not signal: it is created then.
CreatesAhead ==
  datapath = "Started" =>
    \A n \in Nbls : place[n] = "queued" /\ target[n] \in TxQueues /\ life[target[n]] = "provisioned"
                      => Working \/ sender[n] \in {"look", "signal"}

\* For Stopping m_event says nothing: it takes a run that reads m_state again.
StopsAhead ==
  /\ datapath = "Stopped" => \A q \in Queues : IsStarted(q) => Working
  /\ datapath = "Stopping" =>
       \A q \in Queues : life[q] = "started" => workQueued \/ \E w \in Workers : Cancels(w)

SyncInv ==
  /\ datapath = Asked /\ (~event => app \in Resting \/ Working)
  /\ StartsAhead /\ CreatesAhead /\ StopsAhead

LEMMA AskedFollows ==
  ASSUME SyncInv, AppStep
  PROVE  datapath' = Asked'
  BY DEF SyncInv, Asked, AppStep, SetTxHandler, CloseTxHandler, CloseRundown, Drain,
         SetDatapathState, BeginWait, DestroyQueues, CreateDatapath, WaitsFor

LEMMA AppSync ==
  ASSUME Types, GateInv, SyncInv, AppStep
  PROVE  SyncInv'
  <1>1. datapath' = Asked'
    BY AskedFollows
  <1>2. CASE SetTxHandler \/ CloseTxHandler \/ CloseRundown \/ Drain
    <2>1. /\ UNCHANGED <<datapath, event, work, queues, rss, peer, traffic>>
          /\ app' \in Resting \/ app \notin Resting
      BY <1>2 DEF SetTxHandler, CloseTxHandler, CloseRundown, Drain, Resting
    <2> QED
      BY <1>1, <2>1
      DEF work, queues, traffic, SyncInv, Working, StartsAhead, NeedsStart, CreatesAhead,
          StopsAhead, IsStarted, Cancels, At
  <1>3. ASSUME NEW at, NEW state, NEW to, SetDatapathState(at, state, to)
        PROVE  SyncInv'
    BY <1>1, <1>3
    DEF SetDatapathState, QueueWork, SyncInv, Working, StartsAhead, CreatesAhead, StopsAhead
  <1>4. ASSUME NEW at \in {"checkStarted", "checkStopping", "checkStopped"}, NEW blocked,
               BeginWait(at, blocked)
        PROVE  SyncInv'
    <2>1. UNCHANGED <<datapath, event, work, queues, rss, peer, traffic>> /\ app = at
      BY <1>4 DEF BeginWait
    <2> QED
      BY <1>1, <2>1
      DEF work, queues, traffic, SyncInv, Working, StartsAhead, NeedsStart, CreatesAhead,
          StopsAhead, IsStarted, Cancels, At, Resting
  <1>5. CASE DestroyQueues \/ CreateDatapath
    <2>1. /\ UNCHANGED <<datapath, event, work, rss, peer, traffic>>
          /\ app \in Resting /\ app' \in Resting
      BY <1>5 DEF DestroyQueues, CreateDatapath, Resting
    <2>2. datapath = "Stopped"
      BY <2>1 DEF SyncInv, Asked, Resting
    <2>3. \A q \in Queues : life'[q] \in {"started", "stopping"} => IsStarted(q)
      BY <1>5 DEF DestroyQueues, CreateDatapath, NewLife, IsStarted
    <2> QED
      BY <1>1, <2>1, <2>2, <2>3
      DEF work, SyncInv, Working, StartsAhead, CreatesAhead, StopsAhead, IsStarted
  <1> QED BY <1>2, <1>3, <1>4, <1>5 DEF AppStep

LEMMA QueueSync ==
  ASSUME Types, GateInv, SyncInv, CreateRxScalingQueues \/ SignalRss \/ PeerStep
  PROVE  SyncInv'
  <1>1. UNCHANGED <<datapath, app, worker>>
    BY DEF CreateRxScalingQueues, SignalRss, PeerStep, DestroyOnDemandQueue, PeerStop,
           PeerDestroy, work
  <1>2. datapath' = Asked'
    BY <1>1 DEF SyncInv, Asked
  <1>3. CASE SignalRss
    BY <1>1, <1>2, <1>3
    DEF SignalRss, QueueWork, SyncInv, Working, StartsAhead, CreatesAhead, StopsAhead
  <1>4. ASSUME UNCHANGED <<event, workQueued>>
        PROVE  Working' = Working /\ (~event' => app' \in Resting \/ Working')
               /\ \A w \in Workers : Cancels(w)' = Cancels(w)
    BY <1>1, <1>4 DEF Working, Cancels, At, SyncInv
  <1>5. ASSUME UNCHANGED <<event, workQueued>>,
               \A q \in Queues : life'[q] = "started" => life[q] = "started",
               \A q \in Queues : life'[q] = "stopping" => life[q] \in {"started", "stopping"}
        PROVE  StopsAhead'
    BY <1>1, <1>4, <1>5 DEF SyncInv, StopsAhead, IsStarted
  <1>6. CASE CreateRxScalingQueues
    <2>1. /\ UNCHANGED <<event, workQueued, place, target, sender>> /\ rss' = "signal"
          /\ life' = [q \in Queues |-> IF q \in RssQueues THEN "created" ELSE life[q]]
      BY <1>6 DEF CreateRxScalingQueues, work, traffic
    <2>2. StartsAhead'
      BY <2>1 DEF StartsAhead
    <2>3. CreatesAhead'
      BY <1>1, <1>4, <2>1 DEF CreatesAhead, SyncInv, Queues
    <2> QED BY <1>2, <1>4, <1>5, <2>1, <2>2, <2>3 DEF SyncInv
  <1>7. ASSUME NEW p \in PeerQueues, DestroyOnDemandQueue(p)
        PROVE  SyncInv'
    <2>1. UNCHANGED <<event, workQueued, rss, sender>> /\ peer.at = "idle"
      BY <1>7 DEF DestroyOnDemandQueue
    <2>2. \/ life' = [life EXCEPT ![p] = "stopping"] /\ IsStarted(p)
          \/ life' = life
      BY <1>7 DEF DestroyOnDemandQueue
    <2>3. \A n \in Nbls : place'[n] = "queued" => place[n] = "queued" /\ target'[n] = target[n]
      BY <1>7 DEF DestroyOnDemandQueue, Complete, GateInv
    <2>4. StartsAhead'
      BY <1>1, <1>4, <2>1, <2>2 DEF StartsAhead, NeedsStart, SyncInv, Types, LifeType
    <2>5. CreatesAhead'
      BY <1>1, <1>4, <2>1, <2>2, <2>3 DEF CreatesAhead, SyncInv, Types, LifeType, Queues
    <2>6. StopsAhead'
      BY <1>5, <2>1, <2>2 DEF IsStarted, Types, LifeType
    <2> QED BY <1>2, <1>4, <2>1, <2>4, <2>5, <2>6 DEF SyncInv
  <1>8. CASE PeerStop
    <2>1. /\ UNCHANGED <<event, workQueued, rss, place, target, sender>>
          /\ life' = [life EXCEPT ![peer.queue] = "created"]
          /\ peer' = [peer EXCEPT !.at = "destroy"] /\ peer.at = "stop"
      BY <1>8 DEF PeerStop, StopQueue, work, traffic
    <2>2. peer'.at = "destroy" /\ peer'.queue = peer.queue
      BY <2>1 DEF Types, PeerType
    <2>3. StartsAhead'
      BY <1>1, <1>4, <2>1, <2>2 DEF StartsAhead, NeedsStart, SyncInv, Types, LifeType
    <2>4. CreatesAhead'
      BY <1>1, <1>4, <2>1 DEF CreatesAhead, SyncInv, Types, LifeType, Queues
    <2>5. StopsAhead'
      BY <1>5, <2>1 DEF Types, LifeType
    <2> QED BY <1>2, <1>4, <2>1, <2>3, <2>4, <2>5 DEF SyncInv
  <1>9. CASE PeerDestroy
    <2>1. UNCHANGED <<event, workQueued, rss, place, target, sender>> /\ peer.at = "destroy"
      BY <1>9 DEF PeerDestroy, traffic
    <2>2. \/ life' = life /\ peer' = peer
          \/ /\ life' = [life EXCEPT ![peer.queue] = "provisioned"] /\ peer'.at = "idle"
             /\ ~IsQueuing(peer.queue)
      BY <1>9 DEF PeerDestroy
    <2>3. StartsAhead'
      BY <1>1, <1>4, <2>1, <2>2 DEF StartsAhead, NeedsStart, SyncInv, Types, LifeType
    <2>4. CreatesAhead'
      BY <1>1, <1>4, <2>1, <2>2
      DEF CreatesAhead, IsQueuing, In, SyncInv, Types, LifeType, Queues
    <2>5. StopsAhead'
      BY <1>5, <2>1, <2>2 DEF Types, LifeType
    <2> QED BY <1>2, <1>4, <2>1, <2>3, <2>4, <2>5 DEF SyncInv
  <1> QED BY <1>3, <1>6, <1>7, <1>8, <1>9 DEF PeerStep

\* A run that goes on working needs nothing else to be ahead.
LEMMA GoesOn ==
  ASSUME Types, SyncInv, NEW w \in Workers, NEW a \in Ats \ {"idle"},
         worker'[w].at = a, UNCHANGED <<datapath, app>>,
         datapath = "Stopping" => StopsAhead'
  PROVE  SyncInv'
  <1>1. Working'
    BY DEF Working
  <1>2. datapath' = Asked'
    BY DEF SyncInv, Asked
  <1>3. datapath # "Stopping" => StopsAhead'
    BY <1>1 DEF StopsAhead
  <1> QED BY <1>1, <1>2, <1>3 DEF SyncInv, StartsAhead, CreatesAhead

\* Any other run that has yet to cancel the queues is still there.
LEMMA OthersCancel ==
  ASSUME Types, SyncInv, NEW w \in Workers, ~Cancels(w),
         \A v \in Workers : v # w => worker'[v] = worker[v],
         UNCHANGED <<datapath, workQueued>>,
         \A q \in Queues : life'[q] = "started" => life[q] = "started"
  PROVE  datapath = "Stopping" => StopsAhead'
  <1> SUFFICES ASSUME datapath = "Stopping", NEW q \in Queues, life'[q] = "started",
                      ~workQueued
               PROVE  \E v \in Workers : Cancels(v)'
    BY DEF StopsAhead
  <1>1. PICK v \in Workers : Cancels(v)
    BY DEF SyncInv, StopsAhead
  <1>2. worker'[v] = worker[v]
    BY <1>1
  <1> QED BY <1>1, <1>2 DEF Cancels, At

LEMMA WorkerSync ==
  ASSUME Types, GateInv, SyncInv, NEW w \in Workers, WorkerStep(w)
  PROVE  SyncInv'
  <1>1. UNCHANGED datapath
    BY DEF WorkerStep, TakeWork, LockSync, CreateFails, AllStarted, CancelQueues,
           NotCancelled, NoneStarted, IsDatapathStateSynchronized, CreateQueue,
           StartQueue, QueueStarted, StopCancelled
  <1>2. ASSUME worker'[w].at = "sync" PROVE datapath = "Stopping" => StopsAhead'
    BY <1>1, <1>2 DEF StopsAhead, Cancels
  <1>3. CASE TakeWork(w)
    <2>1. worker'[w].at = "sync" /\ UNCHANGED app
      BY <1>3 DEF TakeWork, Types, WorkerType, WorkerRecords
    <2> QED BY <1>1, <1>2, <2>1, GoesOn DEF Ats
  <1>4. CASE LockSync(w)
    <2>1. worker'[w].at = "locked" /\ worker'[w].seen = datapath /\ UNCHANGED app
      BY <1>4 DEF LockSync, Types, WorkerType, WorkerRecords
    <2>2. datapath = "Stopping" => StopsAhead'
      BY <1>1, <2>1 DEF StopsAhead, Cancels, At
    <2> QED BY <1>1, <2>1, <2>2, GoesOn DEF Ats
  <1>5. ASSUME NEW again, Unlock(w, again)
        PROVE  /\ worker'[w].at = IF again THEN "sync" ELSE "check"
               /\ \A v \in Workers : v # w => worker'[v] = worker[v]
    BY <1>5 DEF Unlock, Types, WorkerType, WorkerRecords
  <1>6. CASE CreateFails(w)
    <2>1. worker'[w].at = "sync" /\ UNCHANGED app
      BY <1>5, <1>6 DEF CreateFails
    <2> QED BY <1>1, <1>2, <2>1, GoesOn DEF Ats
  <1>7. CASE AllStarted(w)
    <2>1. /\ worker'[w].at = "check" /\ UNCHANGED <<app, life, workQueued>>
          /\ \A v \in Workers : v # w => worker'[v] = worker[v]
          /\ ~Cancels(w)
      BY <1>5, <1>7 DEF AllStarted, queues, Cancels, At
    <2> QED BY <1>1, <2>1, OthersCancel, GoesOn DEF Ats
  <1>8. CASE CancelQueues(w)
    <2>1. /\ worker'[w].at \in {"sync", "check"} /\ UNCHANGED app
          /\ \A q \in Queues : life'[q] # "started"
      BY <1>5, <1>8 DEF CancelQueues
    <2>2. datapath = "Stopping" => StopsAhead'
      BY <1>1, <2>1 DEF StopsAhead
    <2> QED BY <1>1, <2>1, <2>2, GoesOn DEF Ats
  <1>9. CASE NotCancelled(w)
    <2>1. UNCHANGED <<app, worker, life, workQueued>> /\ worker[w].at = "locked"
          /\ ~Cancels(w)
      BY <1>9 DEF NotCancelled, work, queues, Cancels, At
    <2> QED BY <1>1, <2>1, OthersCancel, GoesOn DEF Ats
  <1>10. CASE NoneStarted(w)
    <2>1. /\ worker'[w].at \in {"sync", "check"} /\ UNCHANGED <<app, life, workQueued>>
          /\ \A v \in Workers : v # w => worker'[v] = worker[v]
          /\ ~Cancels(w)
      BY <1>5, <1>10 DEF NoneStarted, queues, Cancels, At
    <2> QED BY <1>1, <2>1, OthersCancel, GoesOn DEF Ats
  <1>11. ASSUME NEW q \in Queues, CreateQueue(w, q) \/ QueueStarted(w, q)
         PROVE  SyncInv'
    <2>1. worker'[w].at = "sync" /\ UNCHANGED app
      BY <1>5, <1>11 DEF CreateQueue, QueueStarted
    <2> QED BY <1>1, <1>2, <2>1, GoesOn DEF Ats
  <1>12. ASSUME NEW q \in Queues, StartQueue(w, q) \/ StopCancelled(w, q)
         PROVE  SyncInv'
    <2>1. /\ worker'[w].at \in {"locked", "starting"} /\ UNCHANGED <<app, workQueued>>
          /\ \A v \in Workers : v # w => worker'[v] = worker[v]
          /\ ~Cancels(w)
      BY <1>12
      DEF StartQueue, StopCancelled, Cancels, At, Types, WorkerType, WorkerRecords
    <2>2. \A p \in Queues : life'[p] = "started" => life[p] = "started"
      BY <1>12 DEF StartQueue, StopCancelled, StopQueue, Types, LifeType
    <2> QED BY <1>1, <2>1, <2>2, OthersCancel, GoesOn DEF Ats
  <1>13. CASE IsDatapathStateSynchronized(w)
    <2>1. UNCHANGED <<workQueued, life, rss, peer, place, target, sender>>
      BY <1>13 DEF IsDatapathStateSynchronized, queues, traffic
    <2>2. CASE ~Synchronized
      <3>1. worker'[w].at = "sync" /\ UNCHANGED app
        BY <1>13, <2>2
        DEF IsDatapathStateSynchronized, Types, WorkerType, WorkerRecords
      <3> QED BY <1>1, <1>2, <3>1, GoesOn DEF Ats
    <2>3. CASE Synchronized
      <3>1. /\ event' = TRUE
            /\ app' = IF app \in DOMAIN WaitsFor THEN WaitsFor[app] ELSE app
            /\ \A v \in Workers : v # w => worker'[v] = worker[v]
            /\ ~Cancels(w)
        <4>1. worker' = [worker EXCEPT ![w].at = "idle"] /\ worker[w].at = "check"
          BY <1>13, <2>3 DEF IsDatapathStateSynchronized
        <4>2. ~Cancels(w) /\ \A v \in Workers : v # w => worker'[v] = worker[v]
          BY <4>1 DEF Cancels, At, Types, WorkerType
        <4> QED BY <1>13, <2>3, <4>2 DEF IsDatapathStateSynchronized
      <3>2. datapath' = Asked'
        BY <1>1, <3>1 DEF SyncInv, Asked, WaitsFor
      <3>3. datapath = "Stopping" => StopsAhead'
        BY <1>1, <2>1, <3>1, OthersCancel
      <3>4. StartsAhead'
        BY <1>1, <2>1, <2>3 DEF Synchronized, StartsAhead, NeedsStart
      <3>5. CreatesAhead'
        <4> SUFFICES ASSUME datapath = "Started", NEW n \in Nbls, place[n] = "queued",
                            target[n] \in TxQueues, life[target[n]] = "provisioned"
                     PROVE  FALSE
          BY <1>1, <2>1 DEF CreatesAhead
        <4>1. n \in In("queued", target[n]) /\ target[n] \in Queues
          BY DEF In, Queues
        <4> QED BY <2>3, <4>1 DEF Synchronized, NeedsCreate, IsQueuing
      <3>6. datapath # "Stopping" => StopsAhead'
        BY <1>1, <2>1, <2>3
        DEF Synchronized, StopsAhead, IsStarted, Types, FlagType, States
      <3> QED BY <3>1, <3>2, <3>3, <3>4, <3>5, <3>6 DEF SyncInv
    <2> QED BY <2>2, <2>3
  <1> QED
    BY <1>3, <1>4, <1>6, <1>7, <1>8, <1>9, <1>10, <1>11, <1>12, <1>13 DEF WorkerStep

\* Polls and senders leave the queues' lives, m_state, the work item's runs and the
\* app alone; senders leave once the work item is queued or the queue is started.
LEMMA TrafficSync ==
  ASSUME Types, SyncInv,
         UNCHANGED <<datapath, worker, life, app, rss, peer>>,
         workQueued' = TRUE \/ UNCHANGED <<event, workQueued>>,
         workQueued' \/ CreatesAhead'
  PROVE  SyncInv'
  <1>1. datapath' = Asked'
    BY DEF SyncInv, Asked
  <1>2. (~event' => app' \in Resting \/ Working') /\ StartsAhead' /\ StopsAhead'
    BY DEF SyncInv, Working, StartsAhead, NeedsStart, StopsAhead, IsStarted, Cancels, At
  <1>3. CreatesAhead'
    BY DEF CreatesAhead, Working
  <1> QED BY <1>1, <1>2, <1>3 DEF SyncInv

LEMMA PollSync ==
  ASSUME Types, GateInv, SyncInv, NEW q \in Queues, PollStep(q)
  PROVE  SyncInv'
  <1>1. UNCHANGED <<datapath, worker, life, app, rss, peer, event, workQueued, sender>>
    BY DEF PollStep, TransmitNbls, DrainCompletions, TransmitNblsStopping, work, queues
  <1>2. \A n \in Nbls : place'[n] = "queued" => place[n] = "queued" /\ target'[n] = target[n]
    BY DEF PollStep, TransmitNbls, DrainCompletions, TransmitNblsStopping, Complete, GateInv
  <1>3. CreatesAhead'
    BY <1>1, <1>2 DEF SyncInv, CreatesAhead, Working
  <1> QED BY <1>1, <1>3, TrafficSync

LEMMA SendSync ==
  ASSUME Types, GateInv, SyncInv, NEW n \in Nbls, Send(n) \/ SendOn(n)
  PROVE  SyncInv'
  <1>1. UNCHANGED <<datapath, worker, life, app, rss, peer>>
    BY DEF Send, SendOn, ReadTxClosed, Reject, TryAcquire, Enqueue, LookStarted,
           LookNotStarted, SignalQueueStateChange, work, queues
  <1>2. CASE SignalQueueStateChange(n)
    BY <1>1, <1>2, TrafficSync DEF SignalQueueStateChange, QueueWork
  <1>3. CASE ~SignalQueueStateChange(n)
    <2>1. UNCHANGED <<event, workQueued>>
      BY <1>3 DEF Send, SendOn, ReadTxClosed, Reject, TryAcquire, Enqueue, LookStarted,
           LookNotStarted, work
    <2>2. \A m \in Nbls : m # n => UNCHANGED <<place[m], target[m], sender[m]>>
      BY <1>3 DEF Send, SendOn, ReadTxClosed, Reject, TryAcquire, Enqueue, LookStarted,
           LookNotStarted, Leave, GateInv
    <2>3. place'[n] = "queued" =>
            \/ sender'[n] \in {"look", "signal"}
            \/ place[n] = "queued" /\ target'[n] = target[n] /\ IsStarted(target[n])
      BY <1>3 DEF Send, SendOn, ReadTxClosed, Reject, TryAcquire, Enqueue, LookStarted,
           LookNotStarted, Leave, GateInv
    <2>4. CreatesAhead'
      BY <1>1, <2>1, <2>2, <2>3
      DEF SyncInv, CreatesAhead, Working, IsStarted
    <2> QED BY <1>1, <2>1, <2>4, TrafficSync
  <1> QED BY <1>2, <1>3

\* Every change of m_state and every queue that is not what it asks for has a run of
\* the work item, or a thread that will ask for one, ahead: queuecontrol.cpp.
THEOREM SyncInvariant == Spec => []SyncInv
  <1>1. Init => SyncInv
    BY DEF Init, SyncInv, Asked, Resting, StartsAhead, CreatesAhead, StopsAhead, IsStarted,
           NewLife
  <1>2. Types /\ GateInv /\ SyncInv /\ [Next]_vars => SyncInv'
    <2> SUFFICES ASSUME Types, GateInv, SyncInv, [Next]_vars PROVE SyncInv'
      OBVIOUS
    <2>1. CASE UNCHANGED vars
      BY <2>1
      DEF vars, work, queues, traffic, SyncInv, Asked, Working, StartsAhead, NeedsStart,
          CreatesAhead, StopsAhead, IsStarted, Cancels, At
    <2>2. CASE Next
      BY <2>1, <2>2, AppSync, QueueSync, WorkerSync, PollSync, SendSync DEF Next, Halted
    <2> QED BY <2>1, <2>2
  <1>3. Spec => []Types
    BY TypesInvariant
  <1> QED BY <1>1, <1>2, <1>3, GateInvariant, PTL DEF Spec

\* When nobody is at work on the queues they are what m_state asks for, and m_event
\* says so: no signal is lost in the coalescing work item.
THEOREM QuietMeansSynchronizedAlways == Spec => []QuietMeansSynchronized
  <1>1. Types /\ GateInv /\ SyncInv => QuietMeansSynchronized
    <2> SUFFICES ASSUME Types, GateInv, SyncInv, Quiet, app \notin Resting
                 PROVE  /\ event /\ Synchronized
                        /\ datapath = "Stopping" => \A q \in Queues : life[q] # "started"
      BY DEF QuietMeansSynchronized, Resting
    <2>1. ~Working /\ rss # "signal" /\ peer.at = "idle" /\ ~workQueued
          /\ \A w \in Workers : ~Cancels(w)
      BY DEF Quiet, Working, Cancels, At
    <2>2. event
      BY <2>1 DEF SyncInv
    <2>3. datapath = "Started" => \A q \in Queues : ~NeedsCreate(q) /\ ~NeedsStart(q)
      BY <2>1
      DEF Quiet, SyncInv, StartsAhead, CreatesAhead, NeedsCreate, IsQueuing, In
    <2>4. datapath = "Stopped" => \A q \in Queues : ~IsStarted(q)
      BY <2>1 DEF SyncInv, StopsAhead
    <2>5. datapath = "Stopping" => \A q \in Queues : life[q] # "started"
      BY <2>1 DEF SyncInv, StopsAhead
    <2>6. Synchronized
      BY <2>3, <2>4 DEF Synchronized, Types, FlagType, States
    <2> QED BY <2>2, <2>5, <2>6
  <1>2. Spec => []Types
    BY TypesInvariant
  <1> QED BY <1>1, <1>2, GateInvariant, SyncInvariant, PTL
=============================================================================
