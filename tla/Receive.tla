------------------------------- MODULE Receive -------------------------------
(***************************************************************************)
(* A receive queue of the translator (NxRxXlat), its poll functions, and   *)
(* the packet queue below it (Queue of NetAdapterCx): how memory goes from *)
(* the pools into the rings, from there with a NET_BUFFER_LIST to NDIS,    *)
(* and back.  The driver chooses who allocates: it brings its own memory   *)
(* (DRIVER), NetAdapterCx attaches memory to the fragments (ATTACH), or    *)
(* the driver attaches memory from a third ring, where parts of one buffer *)
(* may go to several packets (ALLOCATE).                                   *)
(*                                                                         *)
(* A ring is two sequences: what the driver holds (BeginIndex .. EndIndex) *)
(* and what it has given back (OSReserved0 .. BeginIndex); where in the    *)
(* ring they start makes no difference.  The execution context serializes  *)
(* polls and the cancellation; NDIS gives back what was indicated to it in *)
(* any order and at any time.  Which element leaves a pool first makes no  *)
(* difference either.                                                      *)
(***************************************************************************)
EXTENDS Integers, SequencesExt

CONSTANTS
  NblCount,       \* NumberOfNbls: the NBLs are 1 .. NblCount
  BufferCount,    \* NumberOfBuffers: an MDL each, and a data buffer unless
                  \*   the driver brings its own memory
  PacketSlots,    \* NumberOfElements of the packet ring
  FragmentSlots,  \* NumberOfElements of the fragment ring
  BufferSlots,    \* NumberOfElements of the data buffer ring
  MaxFragments,   \* of a packet
  Batch,          \* NBL_RECEIVE_BATCH_SIZE
  Modes,          \* the allocation modes to look at
  Coalescing,     \* software coalescing is active (RSC)
  MaxReferences,  \* bound: a driver keeps sharing a data buffer with fewer references
  None            \* a null pointer

Nbls    == 1 .. NblCount
Buffers == 1 .. BufferCount

ASSUME SizeAssumption ==
  /\ \A n \in {NblCount, BufferCount, MaxFragments, Batch, MaxReferences} : n \in Nat \ {0}
  /\ \A slots \in {PacketSlots, FragmentSlots, BufferSlots} : slots \in Nat /\ slots > 1
  /\ Modes \subseteq {"DRIVER", "ATTACH", "ALLOCATE"}
  /\ Coalescing \in BOOLEAN
ASSUME NullAssumption == None \notin Nbls \cup Buffers

VARIABLES
  mode,            \* m_rxBufferAllocationMode
  life,            \* of the data path and of the queue: StartDatapath .. StopQueues
  readyToStop,     \* m_readyToStop
  pc,              \* where the poll function is
  awake,           \* the execution context has a reason to poll (again)
  posted,          \* NBLs of the packets that the driver holds
  drained,         \* packets that it has given back
  offered,         \* MDLs of the fragments that it holds (None in mode ALLOCATE)
  filled,          \* fragments that it has given back
  bufferRing,      \* data buffers that it holds
  letGo,           \* data buffers that it has given back
  sharing,         \* it has attached a part of its first data buffer, and keeps it
  driverMemory,    \* memory of its own (DRIVER) that it may attach
  nblPool, mdlPool,
  chain,           \* the MDLs of each NBL, with the memory they describe
  batch,           \* nblsToIndicate
  free,            \* BufferPool: not in use,
  refs, osOwned,   \*   OsRefCount and OsOwned
  leftOver,        \* history: data buffers whose fragments a full batch left in the ring
  indicated,       \* what NDIS holds: sets of NBLs coalesced into one
  returned,        \* m_returnedNblQueue
  discarded,       \* m_discardedNbl
  gateOpen,        \* the rundown m_rxRundown,
  rundown          \*   and its references

packetRing   == <<posted, drained>>
fragmentRing == <<offered, filled>>
dataRing     == <<bufferRing, letGo>>
driver       == <<sharing, driverMemory>>
counts       == <<free, refs, osOwned, leftOver>>
gate         == <<gateOpen, rundown>>
vars == <<mode, life, readyToStop, pc, awake, packetRing, fragmentRing, dataRing, driver, nblPool,
          mdlPool, chain, batch, counts, indicated, returned, discarded, gate>>

---------------------------------------------------------------------------
SmallerOf(a, b) == IF a < b THEN a ELSE b

\* The first elements that leave a pool.
Popped(pool, count) == SubSeq(SetToSeq(pool), 1, count)

\* Elements of a ring that NetAdapterCx may still post.
Room(slots, held, back) == slots - 1 - Len(held) - Len(back)

Fragment(mdl, memory) == [mdl |-> mdl, memory |-> memory, skipped |-> FALSE]
SkippedFragment(mdl)  == [mdl |-> mdl, memory |-> None, skipped |-> TRUE]
Ignored(n)            == [nbl |-> n, count |-> 0, ignore |-> TRUE, valid |-> TRUE]

Init ==
  /\ mode \in Modes
  /\ life = "stopped" /\ readyToStop = FALSE
  /\ pc = "idle" /\ awake = FALSE
  /\ posted = <<>> /\ drained = <<>> /\ offered = <<>> /\ filled = <<>>
  /\ bufferRing = <<>> /\ letGo = <<>>
  /\ sharing = FALSE /\ driverMemory = IF mode = "DRIVER" THEN Buffers ELSE {}
  /\ nblPool = Nbls /\ mdlPool = Buffers
  /\ chain = [n \in Nbls |-> {}] /\ batch = <<>>
  /\ free = IF mode = "ALLOCATE" THEN Buffers ELSE {}
  /\ refs = [b \in Buffers |-> 0] /\ osOwned = {} /\ leftOver = {}
  /\ indicated = {} /\ returned = {} /\ discarded = {}
  /\ gateOpen = FALSE /\ rundown = 0

---------------------------------------------------------------------------
(* StartDatapath and StopDatapath, as far as this queue is concerned. *)

\* SetRxHandler(&m_rxBufferReturn) opens the gate, before the queues start.
OpenGate ==
  /\ life = "stopped"
  /\ life' = "opened" /\ gateOpen' = TRUE /\ rundown' = 0
  /\ UNCHANGED <<mode, readyToStop, pc, awake, packetRing, fragmentRing, dataRing, driver, nblPool,
                 mdlPool, chain, batch, counts, indicated, returned, discarded>>

\* Queue::Start and NxQueue::Start: the rings are empty, whatever was in them.
Start ==
  /\ life = "opened"
  /\ life' = "started" /\ awake' = TRUE
  /\ posted' = <<>> /\ drained' = <<>> /\ offered' = <<>> /\ filled' = <<>>
  /\ bufferRing' = <<>> /\ letGo' = <<>>
  /\ UNCHANGED <<mode, readyToStop, pc, driver, nblPool, mdlPool, chain, batch, counts, indicated,
                 returned, discarded, gate>>

\* SetRxHandler(nullptr) closes the gate and waits for what NDIS holds.
CloseGate ==
  /\ life = "started"
  /\ life' = "closing" /\ gateOpen' = FALSE
  /\ UNCHANGED <<mode, readyToStop, pc, awake, packetRing, fragmentRing, dataRing, driver, nblPool,
                 mdlPool, chain, batch, counts, indicated, returned, discarded, rundown>>

\* The driver's EvtCancel: it gives back all that it holds, or (not in mode
\* ALLOCATE) keeps packets and gives them back later.
EvtCancel ==
  \/ /\ drained' = drained \o [i \in DOMAIN posted |-> Ignored(posted[i])]
     /\ filled' = filled \o [i \in DOMAIN offered |-> SkippedFragment(offered[i])]
     /\ posted' = <<>> /\ offered' = <<>>
  \/ mode # "ALLOCATE" /\ posted # <<>> /\ UNCHANGED <<packetRing, fragmentRing>>

\* Mutant: the context is not notified.
CancelSilently ==
  /\ life = "closing" /\ rundown = 0 /\ pc = "idle"
  /\ life' = "stopping"
  /\ EvtCancel
  /\ UNCHANGED <<mode, readyToStop, pc, awake, dataRing, driver, nblPool, mdlPool, chain, batch,
                 counts, indicated, returned, discarded, gate>>

\* Mutant: the queue is cancelled while NDIS still holds NBLs.
CancelAtOnce ==
  /\ life = "closing" /\ pc = "idle"
  /\ life' = "stopping" /\ awake' = TRUE
  /\ EvtCancel
  /\ UNCHANGED <<mode, readyToStop, pc, dataRing, driver, nblPool, mdlPool, chain, batch, counts,
                 indicated, returned, discarded, gate>>

\* Queue::Cancel: the poll function changes, the driver cancels as a task of
\* the context, and the context is notified.
Cancel ==
  /\ life = "closing" /\ rundown = 0 /\ pc = "idle"
  /\ life' = "stopping" /\ awake' = TRUE
  /\ EvtCancel
  /\ UNCHANGED <<mode, readyToStop, pc, dataRing, driver, nblPool, mdlPool, chain, batch, counts,
                 indicated, returned, discarded, gate>>

\* Queue::Stop, with PostStopReclaimDataBuffers of the packet queue (Free
\* asserts that a buffer has no references).
Stop ==
  /\ life = "stopping" /\ readyToStop /\ pc = "idle"
  /\ life' = "stopped" /\ readyToStop' = FALSE /\ awake' = FALSE
  /\ free' = free \cup ToSet(bufferRing) /\ bufferRing' = <<>>
  /\ sharing' = FALSE
  /\ UNCHANGED <<mode, pc, packetRing, fragmentRing, letGo, driverMemory, nblPool, mdlPool, chain,
                 batch, refs, osOwned, leftOver, indicated, returned, discarded, gate>>

---------------------------------------------------------------------------
(* The poll function: buffers return, and go to the rings. *)

\* FreeReceivedDataBuffer, for each NBL that is back: its memory returns to whom
\* it came from.
FreeReceivedDataBuffer(back) ==
  LET parts    == UNION {chain[n] : n \in back}
      times(b) == Cardinality({n \in back : \E part \in chain[n] : part.mdl = b})
      freed    == {b \in Buffers : times(b) > 0 /\ refs[b] = times(b) /\ b \in osOwned}
  IN /\ chain' = [n \in Nbls |-> IF n \in back THEN {} ELSE chain[n]]
     /\ IF mode = "ALLOCATE"
        THEN /\ refs' = [b \in Buffers |-> refs[b] - times(b)]
             /\ free' = free \cup freed /\ osOwned' = osOwned \ freed
             /\ UNCHANGED <<mdlPool, driverMemory, leftOver>>
        ELSE /\ mdlPool' = mdlPool \cup {part.mdl : part \in parts}
             /\ driverMemory' = IF mode = "DRIVER"
                                THEN driverMemory \cup {part.memory : part \in parts}
                                ELSE driverMemory
             /\ UNCHANGED counts

\* What a stopping poll function waits for.
AllGivenBack == posted = <<>> /\ offered = <<>>

\* EcReturnBuffers: NBLs from NDIS, and those that were not indicated, return
\* to the pool.  A stopping queue whose driver has given everything back
\* recovers the rest.
EcReturnBuffers ==
  LET back == returned \cup discarded
  IN /\ pc = "idle" /\ awake /\ life \in {"started", "closing", "stopping"}
     /\ awake' = (back # {})
     /\ pc' = IF life # "stopping" THEN "prepare"
              ELSE IF AllGivenBack THEN "recover" ELSE "post"
     /\ returned' = {} /\ discarded' = {}
     /\ nblPool' = nblPool \cup back
     /\ FreeReceivedDataBuffer(back)
     /\ UNCHANGED <<mode, life, readyToStop, packetRing, fragmentRing, dataRing, sharing, batch,
                    indicated, gate>>

\* EcPrepareBuffersForNetAdapter: NBLs and MDLs for every free element.
EcPrepareBuffers ==
  LET packets == SmallerOf(Room(PacketSlots, posted, drained), Cardinality(nblPool))
      nbls    == Popped(nblPool, packets)
      room    == Room(FragmentSlots, offered, filled)
      mdls    == IF mode = "ALLOCATE" THEN [i \in 1 .. room |-> None]
                 ELSE Popped(mdlPool, SmallerOf(room, Cardinality(mdlPool)))
  IN /\ pc = "prepare" /\ pc' = "post"
     /\ posted' = posted \o nbls /\ nblPool' = nblPool \ ToSet(nbls)
     /\ offered' = offered \o mdls /\ mdlPool' = mdlPool \ ToSet(mdls)
     /\ UNCHANGED <<mode, life, readyToStop, awake, drained, filled, dataRing, driver, chain, batch,
                    counts, indicated, returned, discarded, gate>>

\* PreAdvancePostDataBuffer: buffers from the pool for the data buffer ring.
PreAdvancePostDataBuffer ==
  LET count   == SmallerOf(Room(BufferSlots, bufferRing, letGo), Cardinality(free))
      buffers == Popped(free, count)
  IN /\ pc = "post" /\ pc' = "advance"
     /\ bufferRing' = bufferRing \o buffers /\ free' = free \ ToSet(buffers)
     /\ UNCHANGED <<mode, life, readyToStop, awake, packetRing, fragmentRing, letGo, driver,
                    nblPool, mdlPool, chain, batch, refs, osOwned, leftOver, indicated, returned,
                    discarded, gate>>

---------------------------------------------------------------------------
(* The driver's EvtAdvance, a packet at a time. *)

\* The next fragments, with memory: the driver's own, what is attached
\* already, or the first data buffers, of which it may keep one for the next
\* packet.  The MDL of a data buffer is found by its index.
Attached(count) ==
  IF mode = "DRIVER"
  THEN [i \in 1 .. count |-> Fragment(offered[i], Popped(driverMemory, count)[i])]
  ELSE IF mode = "ATTACH" THEN [i \in 1 .. count |-> Fragment(offered[i], offered[i])]
  ELSE [i \in 1 .. count |-> Fragment(bufferRing[i], bufferRing[i])]

TakesMemory(count) ==
  \/ /\ mode = "DRIVER" /\ count <= Cardinality(driverMemory)
     /\ driverMemory' = driverMemory \ ToSet(Popped(driverMemory, count))
     /\ UNCHANGED <<dataRing, sharing>>
  \/ mode = "ATTACH" /\ UNCHANGED <<dataRing, driver>>
  \/ /\ mode = "ALLOCATE" /\ count <= Len(bufferRing)
     /\ sharing => count = 1
     /\ \/ /\ sharing' = FALSE
           /\ letGo' = letGo \o SubSeq(bufferRing, 1, count)
           /\ bufferRing' = SubSeq(bufferRing, count + 1, Len(bufferRing))
        \/ /\ count = 1 /\ refs[bufferRing[1]] < MaxReferences
           /\ sharing' = TRUE /\ UNCHANGED dataRing
     /\ UNCHANGED driverMemory

\* A packet has arrived in the next fragments, with lengths and offsets that
\* the capabilities allow, or not (valid).
DriverReceives ==
  /\ pc = "advance" /\ posted # <<>>
  /\ \E count \in 1 .. SmallerOf(MaxFragments, Len(offered)), valid \in BOOLEAN :
       /\ TakesMemory(count)
       /\ filled' = filled \o Attached(count)
       /\ offered' = SubSeq(offered, count + 1, Len(offered))
       /\ drained' = Append(drained, [nbl |-> Head(posted), count |-> count,
                                      ignore |-> FALSE, valid |-> valid])
       /\ posted' = Tail(posted)
  /\ UNCHANGED <<mode, life, readyToStop, pc, awake, nblPool, mdlPool, chain, batch, counts,
                 indicated, returned, discarded, gate>>

\* A packet without data.
DriverIgnores ==
  /\ pc = "advance" /\ posted # <<>>
  /\ drained' = Append(drained, Ignored(Head(posted))) /\ posted' = Tail(posted)
  /\ UNCHANGED <<mode, life, readyToStop, pc, awake, fragmentRing, dataRing, driver, nblPool,
                 mdlPool, chain, batch, counts, indicated, returned, discarded, gate>>

\* A fragment that no packet uses; in mode ALLOCATE it would have no buffer.
DriverSkips ==
  /\ pc = "advance" /\ offered # <<>> /\ mode # "ALLOCATE"
  /\ filled' = Append(filled, SkippedFragment(Head(offered))) /\ offered' = Tail(offered)
  /\ UNCHANGED <<mode, life, readyToStop, pc, awake, packetRing, dataRing, driver, nblPool,
                 mdlPool, chain, batch, counts, indicated, returned, discarded, gate>>

\* PostAdvanceRefCounting: a reference for each fragment up to BeginIndex, and
\* the buffers that the driver has let go.  Fragments that a full batch has
\* left in the ring are counted again.
PostAdvanceRefCounting ==
  LET times(b) == Cardinality({i \in DOMAIN filled : filled[i].memory = b})
  IN /\ pc = "advance" /\ pc' = "indicate"
     /\ IF mode = "ALLOCATE"
        THEN /\ refs' = [b \in Buffers |-> refs[b] + times(b)]
             /\ osOwned' = osOwned \cup ToSet(letGo)
             /\ letGo' = <<>>
        ELSE UNCHANGED <<refs, osOwned, letGo>>
     /\ UNCHANGED <<mode, life, readyToStop, awake, packetRing, fragmentRing, bufferRing, driver,
                    nblPool, mdlPool, chain, batch, free, leftOver, indicated, returned, discarded,
                    gate>>

---------------------------------------------------------------------------
(* The poll function: packets go to NDIS. *)

\* Mutant: the MDLs of skipped fragments are not reclaimed.
SkippedForgotten(fragments) == {}

\* ReclaimSkippedFragments: the MDLs of fragments that no packet uses.
ReclaimSkippedFragments(fragments) ==
  IF mode = "ALLOCATE" THEN {} ELSE {fragments[i].mdl : i \in DOMAIN fragments}

\* TransferDataBufferFromNetPacketToNbl: the NBL of the next packet takes the
\* MDLs of its fragments; it is indicated unless it is ignored or invalid.
TransferDataBuffer ==
  LET packet == Head(drained)
      first  == CHOOSE i \in DOMAIN filled : /\ ~filled[i].skipped
                                             /\ \A j \in 1 .. i - 1 : filled[j].skipped
      next   == first + packet.count
  IN /\ pc = "indicate" /\ drained # <<>> /\ Len(batch) < Batch
     /\ awake' = TRUE
     /\ drained' = Tail(drained)
     /\ IF packet.ignore
        THEN UNCHANGED <<filled, mdlPool, chain>>
        ELSE /\ filled' = SubSeq(filled, next, Len(filled))
             /\ mdlPool' = mdlPool \cup ReclaimSkippedFragments(SubSeq(filled, 1, first - 1))
             /\ chain' = [chain EXCEPT ![packet.nbl] =
                            {[mdl |-> filled[i].mdl, memory |-> filled[i].memory] :
                               i \in first .. next - 1}]
     /\ IF ~packet.ignore /\ packet.valid
        THEN batch' = Append(batch, packet.nbl) /\ UNCHANGED discarded
        ELSE discarded' = discarded \cup {packet.nbl} /\ UNCHANGED batch
     /\ UNCHANGED <<mode, life, readyToStop, pc, posted, offered, dataRing, driver, nblPool, counts,
                    indicated, returned, gate>>

\* What NDIS gets of a batch: runs of NBLs coalesced into one.
Coalesced(s) ==
  LET together(i, cuts) == {s[j] : j \in {x \in DOMAIN s : \A c \in cuts : (x <= c) <=> (i <= c)}}
  IN {{together(i, cuts) : i \in DOMAIN s} :
        cuts \in IF Coalescing THEN SUBSET DOMAIN s ELSE {DOMAIN s}}

\* The rest of EcIndicateNblsToNdis.  When the gate is closed the NBLs count
\* as returned.
IndicateReceiveNetBufferLists ==
  LET done == drained = <<>>
  IN /\ pc = "indicate" /\ (done \/ Len(batch) = Batch)
     /\ pc' = "idle"
     /\ mdlPool' = mdlPool \cup (IF done THEN ReclaimSkippedFragments(filled) ELSE {})
     /\ filled' = IF done THEN <<>> ELSE filled
     /\ leftOver' = IF done \/ mode # "ALLOCATE" THEN leftOver
                    ELSE leftOver \cup ({filled[i].memory : i \in DOMAIN filled} \ {None})
     /\ batch' = <<>>
     /\ IF gateOpen
        THEN /\ \E units \in Coalesced(batch) :
                  /\ indicated' = indicated \cup units
                  /\ rundown' = rundown + Cardinality(units)
             /\ UNCHANGED discarded
        ELSE discarded' = discarded \cup ToSet(batch) /\ UNCHANGED <<indicated, rundown>>
     /\ UNCHANGED <<mode, life, readyToStop, awake, packetRing, offered, dataRing, driver, nblPool,
                    chain, free, refs, osOwned, returned, gateOpen>>

\* The rest of EcRecoverBuffers: what the driver has given back and no poll
\* has drained goes to the pools.
EcRecoverBuffers ==
  LET used == {i \in DOMAIN filled : ~filled[i].skipped}
  IN /\ pc = "recover" /\ pc' = "idle" /\ readyToStop' = TRUE
     /\ nblPool' = nblPool \cup {drained[i].nbl : i \in DOMAIN drained}
     /\ driverMemory' = IF mode = "DRIVER" THEN driverMemory \cup {filled[i].memory : i \in used}
                        ELSE driverMemory
     /\ mdlPool' = mdlPool \cup ReclaimSkippedFragments(filled)
     /\ drained' = <<>> /\ filled' = <<>>
     /\ UNCHANGED <<mode, life, awake, posted, offered, dataRing, sharing, chain, batch, counts,
                    indicated, returned, discarded, gate>>

---------------------------------------------------------------------------
(* NDIS and the device. *)

\* ReturnNetBufferLists: the NBLs are queued, the context is notified, and
\* the rundown released.
ReturnNetBufferLists(unit) ==
  /\ unit \in indicated
  /\ indicated' = indicated \ {unit}
  /\ returned' = returned \cup unit /\ awake' = TRUE
  /\ rundown' = rundown - 1
  /\ UNCHANGED <<mode, life, readyToStop, pc, packetRing, fragmentRing, dataRing, driver, nblPool,
                 mdlPool, chain, batch, counts, discarded, gateOpen>>

\* The interrupt of a device that has something to give back.
DeviceNotifies ==
  /\ life \in {"started", "closing", "stopping"} /\ ~awake
  /\ posted # <<>> \/ offered # <<>>
  /\ awake' = TRUE
  /\ UNCHANGED <<mode, life, readyToStop, pc, packetRing, fragmentRing, dataRing, driver, nblPool,
                 mdlPool, chain, batch, counts, indicated, returned, discarded, gate>>

DriverAdvances == DriverReceives \/ DriverIgnores \/ DriverSkips

Poll ==
  \/ EcReturnBuffers \/ EcPrepareBuffers \/ PreAdvancePostDataBuffer
  \/ PostAdvanceRefCounting \/ TransferDataBuffer \/ IndicateReceiveNetBufferLists
  \/ EcRecoverBuffers

Next ==
  \/ OpenGate \/ Start \/ CloseGate \/ Cancel \/ Stop \/ DeviceNotifies
  \/ \E unit \in indicated : ReturnNetBufferLists(unit)
  \/ DriverAdvances \/ Poll

Spec == Init /\ [][Next]_vars

\* The context runs what it has a reason to run, the device interrupts, NDIS
\* gives back what it holds, StopDatapath goes on (Cancel is a task of the
\* context, that runs between polls), and a driver that keeps being asked
\* gives back its packets and fragments in the end.
Fairness ==
  /\ WF_vars(Poll) /\ WF_vars(DeviceNotifies) /\ WF_vars(Stop)
  /\ WF_vars(\E unit \in indicated : ReturnNetBufferLists(unit))
  /\ SF_vars(Cancel)
  /\ SF_vars(DriverReceives \/ DriverIgnores) /\ SF_vars(DriverSkips)

FairSpec == Spec /\ Fairness

---------------------------------------------------------------------------
(* Properties. *)

\* NBLs with memory that are on their way to NDIS, with NDIS, or back.
Carriers == ToSet(batch) \cup returned \cup discarded \cup UNION indicated

Places(s, x) == Cardinality({i \in DOMAIN s : s[i] = x})

NblPlaces(n) ==
  Places(posted, n) + Cardinality({i \in DOMAIN drained : drained[i].nbl = n}) + Places(batch, n)
  + Cardinality({unit \in indicated : n \in unit})
  + Cardinality({n} \cap nblPool) + Cardinality({n} \cap returned) + Cardinality({n} \cap discarded)

MdlPlaces(b) ==
  Cardinality({b} \cap mdlPool) + Places(offered, b)
  + Cardinality({i \in DOMAIN filled : filled[i].mdl = b})
  + Cardinality({n \in Carriers : \E part \in chain[n] : part.mdl = b})

\* Fragments and NBLs that use a piece of memory.
Users(b) ==
  Cardinality({i \in DOMAIN filled : filled[i].memory = b})
  + Cardinality({n \in Carriers : \E part \in chain[n] : part.memory = b})

\* A data buffer that the driver holds, or has just let go.
WithDriver(b) == b \in ToSet(bufferRing) \cup ToSet(letGo)

\* No NBL, no MDL and no memory of the driver is in two places or lost.  A data
\* buffer has at least as many references as fragments and NBLs use it (once
\* they are counted), and is not in the pool while somebody uses it.  Unless a
\* full batch has left fragments of it in the ring, which the next poll counts
\* again and the last one drops, it has exactly as many, and is in the pool as
\* soon as nobody uses it and the driver has let it go (BufferPool,
\* PostAdvanceRefCounting, EcReturnBuffers).
MemoryHasOneOwner ==
  /\ \A n \in Nbls : NblPlaces(n) = 1
  /\ mode # "ALLOCATE" => \A b \in Buffers : MdlPlaces(b) = 1
  /\ mode = "DRIVER" => \A b \in Buffers : Cardinality({b} \cap driverMemory) + Users(b) = 1
  /\ mode = "ALLOCATE" =>
       \A b \in Buffers :
         /\ pc # "advance" => refs[b] >= Users(b)
         /\ Places(bufferRing, b) + Places(letGo, b) <= 1
         /\ b \in free => ~WithDriver(b) /\ Users(b) = 0
         /\ b \notin leftOver =>
              /\ pc # "advance" => refs[b] = Users(b)
              /\ b \in free <=> ~WithDriver(b) /\ b \notin osOwned
              /\ b \in free => refs[b] = 0

\* Once the queue is ready to stop, all NBLs and MDLs are in their pools, as
\* EcRecoverBuffers asserts.  A stopped queue has returned the driver's memory,
\* and all data buffers to the pool, but for those of which a full batch has left
\* fragments in the ring: for them the assertion of ~BufferPool, that the pool is
\* full, fails (bufferpool.cpp:9).
StopFindsEverything ==
  /\ readyToStop => nblPool = Nbls /\ mdlPool = Buffers
  /\ life = "stopped" /\ mode = "ALLOCATE" =>
       \A b \in Buffers \ leftOver : b \in free /\ refs[b] = 0
  /\ life = "stopped" /\ mode = "DRIVER" => driverMemory = Buffers

\* A stopping poll whose driver has given back its last fragments, and no
\* packet with them: it will report no work, and nothing else wakes the context.
LastPollUnseen ==
  life = "stopping" /\ pc = "indicate" /\ AllGivenBack /\ drained = <<>> /\ batch = <<>> /\ ~awake

\* A stop ends: NDIS gives back what it holds, the polls of the stopping queue
\* see the rings empty, and m_readyToStop is set (ReceiveNblsStopping); all but
\* the stop whose last fragments come back alone.
StopEnds == life = "closing" ~> life = "stopped" \/ LastPollUnseen

=============================================================================
