------------------------------ MODULE Transmit ------------------------------
(***************************************************************************)
(* A transmit queue of the translator (NxTxXlat) with its poll functions:  *)
(* how NET_BUFFER_LISTs become packets and fragments of the two rings,     *)
(* with bounce buffers, scatter/gather lists and software segmentation,    *)
(* how the NIC's packets are completed, and what a stop does with the rest.*)
(*                                                                         *)
(* The execution context serializes the polls and the cancellation; the    *)
(* senders come in between any two of their steps.  What an MDL chain      *)
(* looks like is data: the kind of a NET_BUFFER says into how many         *)
(* fragments it maps, how many of these the NIC can use as they are, and   *)
(* whether the buffer has room for the backfill and a length the NIC       *)
(* supports.                                                               *)
(***************************************************************************)
EXTENDS Integers, Sequences, FiniteSets

CONSTANTS
  Nbls,          \* the NET_BUFFER_LISTs, which their owner sends again and again
  NetBuffers,    \* NetBuffers[n] : the kinds of the NET_BUFFERs of n
  Segments,      \* Segments[n] : the kinds of the NET_BUFFERs that software
                 \*   segmentation makes of n, or <<>> if n needs none
  PacketSlots,   \* NumberOfElements of the packet ring
  FragmentSlots, \* NumberOfElements of the fragment ring
  MaxFragments,  \* MaximumNumberOfTxFragments
  Buffers,       \* the bounce buffers
  Batch,         \* NBL_SEND_COMPLETION_BATCH_SIZE
  Mappings,      \* the ways in which this adapter may map an MDL chain
  SharedDma,     \* the DMA engine runs short because of others, too
  Nothing        \* a null pointer, or bytes that nobody reads any more

Kinds == [fragments : Nat \ {0}, usable : Nat, backfill : BOOLEAN, valid : BOOLEAN]

ASSUME RingAssumption ==
  /\ PacketSlots \in Nat /\ PacketSlots > 1
  /\ FragmentSlots \in Nat /\ FragmentSlots > 1
  /\ MaxFragments \in Nat \ {0}
  /\ Batch \in Nat \ {0}
ASSUME DataAssumption ==
  /\ \A n \in Nbls : NetBuffers[n] \in Seq(Kinds) /\ NetBuffers[n] # <<>>
  /\ \A n \in Nbls : Segments[n] \in Seq(Kinds)
  /\ Mappings \subseteq {"KvmOnly", "BypassHal", "UseHal", "AlwaysBounce"}
  /\ SharedDma \in BOOLEAN

VARIABLES
  mapping,         \* MappingRequirement, BypassHal() and AlwaysBounce()
  life,            \* m_started and m_stopping
  readyToStop,     \* m_readyToStop
  pc,              \* where the poll function is
  awake,           \* the execution context has a reason to poll
  produced,        \* m_producedPackets > 0
  completed,       \* m_completedPackets > 0
  completedChain,  \* result.CompletedChain: NBLs that a drain has completed
  atOs,            \* NBLs in the hands of their owner
  sending,         \* NBLs on their way from the gate to the queue
  queue,           \* m_synchronizedNblQueue
  currentNbl,      \* m_currentNbl, a chain of NBLs and clones
  currentNb,       \* m_currentNetBuffer, the index of a NET_BUFFER or 0
  pr,              \* OSReserved0, BeginIndex and EndIndex of the packet ring
  fr,              \* BeginIndex and EndIndex of the fragment ring
  packets,         \* the elements of the packet ring, with their PacketContext
  fragments,       \* what each element of the fragment ring points to
  fragmentContext, \* FragmentContext, the bounce buffer of each element
  free,            \* the bounce buffers in the pool
  content,         \* what was copied to each bounce buffer
  over,            \* history: packets bounced into a fragment of a packet that was not drained
  lost,            \* history: bounce buffers whose FragmentContext was overwritten
  sgl,             \* the packets that hold a scatter/gather list
  clones,          \* NBLs that have a clone (m_nblRefcount counts them)
  strayClones      \* NBLs whose clone was given to NDIS

polling  == <<pc, awake, produced, completed, completedChain>>
rings    == <<pr, fr, packets, fragments, fragmentContext>>
pool     == <<free, content, over, lost>>
chain    == <<currentNbl, currentNb>>
owners   == <<atOs, sending, strayClones>>
vars == <<mapping, life, readyToStop, polling, queue, rings, pool, chain, owners, sgl, clones>>

---------------------------------------------------------------------------
(* Data. *)

\* An NBL of a chain is an original or the clone that was made of one.
Original(n) == [nbl |-> n, clone |-> FALSE]
Clone(n)    == [nbl |-> n, clone |-> TRUE]
Items       == [nbl : Nbls, clone : BOOLEAN]

NetBuffersOf(item) == IF item.clone THEN Segments[item.nbl] ELSE NetBuffers[item.nbl]

\* The bytes of one NET_BUFFER.
Bytes(item, i) == [item |-> item, nb |-> i]

\* NBLs, bytes and bounce buffers are different things, and none of them is nothing.
ASSUME NothingAssumption ==
  /\ Nothing \notin Items \cup Buffers
  /\ \A item \in Items : \A i \in DOMAIN NetBuffersOf(item) :
       Bytes(item, i) \notin Buffers \cup {Nothing}

EmptyPacket == [ignore |-> FALSE, index |-> 0, count |-> 0, complete |-> Nothing, nb |-> Nothing]

Advance(slots, i, k)  == (i + k) % slots
Count(slots, from, to) == (to - from + slots) % slots
\* The k elements of a ring from an index on.
Elements(slots, from, k) == {Advance(slots, from, i) : i \in 0 .. k - 1}

AnyNicPackets      == pr.begin # pr.end
AnyReturnedPackets == pr.next # pr.begin
NicPackets         == Elements(PacketSlots, pr.begin, Count(PacketSlots, pr.begin, pr.end))
ReturnedPackets    == Elements(PacketSlots, pr.next, Count(PacketSlots, pr.next, pr.begin))
NicFragments       == Elements(FragmentSlots, fr.begin, Count(FragmentSlots, fr.begin, fr.end))
FragmentsOf(p)     == Elements(FragmentSlots, packets[p].index, packets[p].count)
PacketRingFull     == Advance(PacketSlots, pr.end, 1) = pr.next

Init ==
  /\ mapping \in Mappings
  /\ life = "stopped" /\ readyToStop = FALSE
  /\ pc = "idle" /\ awake = FALSE
  /\ produced = FALSE /\ completed = FALSE /\ completedChain = {}
  /\ atOs = Nbls /\ sending = {} /\ strayClones = {}
  /\ queue = <<>> /\ currentNbl = <<>> /\ currentNb = 0
  /\ pr = [next |-> 0, begin |-> 0, end |-> 0]
  /\ fr = [begin |-> 0, end |-> 0]
  /\ packets = [p \in 0 .. PacketSlots - 1 |-> EmptyPacket]
  /\ fragments = [f \in 0 .. FragmentSlots - 1 |-> Nothing]
  /\ fragmentContext = [f \in 0 .. FragmentSlots - 1 |-> Nothing]
  /\ free = Buffers /\ content = [b \in Buffers |-> Nothing]
  /\ over = {} /\ lost = {}
  /\ sgl = {} /\ clones = {}

---------------------------------------------------------------------------
(* Senders. *)

\* An NBL passes the gate, which is open while the queue runs.
Send(n) ==
  /\ life = "started" /\ n \in atOs
  /\ atOs' = atOs \ {n} /\ sending' = sending \cup {n}
  /\ UNCHANGED <<mapping, life, readyToStop, polling, queue, rings, pool, chain, strayClones, sgl, clones>>

\* QueueNetBufferList.  The context is notified, or is about to poll anyway.
QueueNetBufferList(n) ==
  /\ n \in sending
  /\ sending' = sending \ {n}
  /\ queue' = Append(queue, Original(n))
  /\ awake' = TRUE
  /\ UNCHANGED <<mapping, life, readyToStop, pc, produced, completed, completedChain, rings, pool,
                 chain, atOs, strayClones, sgl, clones>>

---------------------------------------------------------------------------
(* Life cycle of the queue. *)

\* Queue::Start, with NxQueue::Start, which resets the rings.
Start ==
  /\ life = "stopped"
  /\ life' = "started" /\ awake' = TRUE
  /\ pr' = [next |-> 0, begin |-> 0, end |-> 0]
  /\ fr' = [begin |-> 0, end |-> 0]
  /\ UNCHANGED <<mapping, readyToStop, pc, produced, completed, completedChain, queue, packets,
                 fragments, fragmentContext, pool, chain, owners, sgl, clones>>

\* The client driver gives back k packets, with their fragments.
Return(k) ==
  /\ k \in 0 .. Count(PacketSlots, pr.begin, pr.end)
  /\ LET done == Elements(PacketSlots, pr.begin, k)
         used == {p \in done : packets[p].count > 0}
     IN  fr' = IF used = {} THEN fr
               ELSE LET last == CHOOSE p \in used : \A q \in used :
                                   Count(PacketSlots, pr.begin, q) <= Count(PacketSlots, pr.begin, p)
                    IN  [fr EXCEPT !.begin =
                           Advance(FragmentSlots, packets[last].index, packets[last].count)]
  /\ fragments' = [f \in DOMAIN fragments |->
                     IF \E i \in 0 .. k - 1 : f \in FragmentsOf(Advance(PacketSlots, pr.begin, i))
                     THEN Nothing ELSE fragments[f]]
  /\ pr' = [pr EXCEPT !.begin = Advance(PacketSlots, pr.begin, k)]

\* Queue::Cancel, once the gate is closed: the other poll function takes over,
\* the driver is told to cancel, the context is notified.
Cancel ==
  /\ life = "started" /\ pc = "idle"
  /\ life' = "stopping" /\ awake' = TRUE
  /\ \E k \in 0 .. PacketSlots : Return(k)
  /\ UNCHANGED <<mapping, readyToStop, pc, produced, completed, completedChain, queue, packets,
                 fragmentContext, pool, chain, owners, sgl, clones>>

\* Queue::Stop, after SetTxHandler(nullptr) has seen every NBL complete.
Stop ==
  /\ life = "stopping" /\ readyToStop /\ pc = "idle"
  /\ atOs = Nbls
  /\ life' = "stopped" /\ readyToStop' = FALSE
  /\ UNCHANGED <<mapping, polling, queue, rings, pool, chain, owners, sgl, clones>>

---------------------------------------------------------------------------
(* The poll functions. *)

\* The interrupt of a device that holds packets.
NicNotifies ==
  /\ ~awake /\ pc = "idle" /\ life # "stopped" /\ AnyNicPackets
  /\ awake' = TRUE
  /\ UNCHANGED <<mapping, life, readyToStop, pc, produced, completed, completedChain, queue, rings,
                 pool, chain, owners, sgl, clones>>

\* TransmitNbls begins with PollNetBufferLists.
TransmitNbls ==
  /\ life = "started" /\ pc = "idle" /\ awake
  /\ awake' = FALSE /\ produced' = FALSE /\ pc' = "translate"
  /\ IF currentNbl = <<>>
     THEN currentNbl' = queue /\ queue' = <<>>
     ELSE UNCHANGED <<currentNbl, queue>>
  /\ UNCHANGED <<mapping, life, readyToStop, completed, completedChain, rings, pool, currentNb,
                 owners, sgl, clones>>

\* What a completed chain means to NDIS: an original returns to its owner.
SendNetBufferListsComplete(items) ==
  /\ atOs' = atOs \cup {item.nbl : item \in {i \in items : ~i.clone}}
  /\ strayClones' = strayClones \cup {item.nbl : item \in {i \in items : i.clone}}

\* TransmitNblsStopping: as long as packets are out, the NIC is asked for them
\* and what came back is drained; then the queued NBLs and the current chain
\* are completed as they are.
TransmitNblsStopping ==
  /\ life = "stopping" /\ pc = "idle" /\ awake
  /\ IF AnyNicPackets
     THEN pc' = "yield" /\ UNCHANGED completed
     ELSE IF AnyReturnedPackets
     THEN pc' = "drain" /\ completed' = FALSE
     ELSE UNCHANGED <<pc, completed>>
  /\ IF AnyNicPackets \/ AnyReturnedPackets
     THEN /\ awake' = FALSE
          /\ UNCHANGED <<queue, chain, readyToStop, atOs, strayClones>>
     ELSE \* DropQueuedNetBufferLists, AbortNbls
          /\ SendNetBufferListsComplete(
               {currentNbl[i] : i \in DOMAIN currentNbl} \cup {queue[i] : i \in DOMAIN queue})
          /\ queue' = <<>> /\ currentNbl' = <<>> /\ currentNb' = 0
          /\ readyToStop' = TRUE
          /\ awake' = (produced \/ completed)
  /\ UNCHANGED <<mapping, life, produced, completedChain, rings, pool, sending, sgl, clones>>

\* NxNblTranslator::TranslateNbls runs while it has NBLs and a packet.
Translating == pc = "translate" /\ currentNbl # <<>> /\ ~PacketRingFull

CurrentNbl       == Head(currentNbl)
CurrentNetBuffer == IF currentNb = 0 THEN 1 ELSE currentNb
CurrentKind      == NetBuffersOf(CurrentNbl)[CurrentNetBuffer]

IsSoftwareGsoRequired == ~CurrentNbl.clone /\ Segments[CurrentNbl.nbl] # <<>>

\* TranslateNetBuffer comes to the buffers of this NET_BUFFER.
TranslatingBuffers == Translating /\ ~IsSoftwareGsoRequired

\* ReplaceCurrentNetBufferList: the segments take the place of the NBL.
SegmentNetBufferList ==
  /\ Translating /\ IsSoftwareGsoRequired
  /\ currentNbl' = <<Clone(CurrentNbl.nbl)>> \o Tail(currentNbl)
  /\ currentNb' = 1
  /\ clones' = clones \cup {CurrentNbl.nbl}
  /\ UNCHANGED <<mapping, life, readyToStop, polling, queue, rings, pool, owners, sgl>>

\* Mutant: a full fragment ring looks like an empty one.
AllFragments == FragmentSlots - Count(FragmentSlots, fr.begin, fr.end)

AvailableFragments == FragmentSlots - 1 - Count(FragmentSlots, fr.begin, fr.end)
SmallerOf(a, b) == IF a < b THEN a ELSE b
MaxFragmentsPerPacket == SmallerOf(MaxFragments, FragmentSlots - 1)

\* The walk over the MDLs (KvmOnly, BypassHal) ends at the first fragment that
\* the NIC cannot use or that it has no slot for.
WalkMdlChain(kind) ==
  LET maximum == SmallerOf(AvailableFragments, MaxFragmentsPerPacket)
  IN  CASE kind.usable < SmallerOf(kind.fragments, maximum) -> "BounceRequired"
        [] kind.fragments <= maximum /\ kind.usable >= kind.fragments -> "Success"
        [] OTHER -> IF maximum = MaxFragmentsPerPacket THEN "BounceRequired"
                    ELSE "InsufficientResources"

\* The scatter/gather list is known before the fragments are.
TranslateScatterGatherList(kind) ==
  CASE kind.fragments > MaxFragmentsPerPacket -> "BounceRequired"
    [] kind.fragments > AvailableFragments    -> "InsufficientResources"
    [] kind.usable < kind.fragments           -> "BounceRequired"
    [] OTHER                                  -> "Success"

\* The HAL may be short of map registers, or unable to map the chain at all.
UseHal(kind) ==
  {"BounceRequired", TranslateScatterGatherList(kind)}
    \cup (IF SharedDma \/ sgl # {} THEN {"InsufficientResources"} ELSE {})

\* TranslateNetBufferToNetPacket
TranslationResults(kind) ==
  CASE ~kind.backfill             -> {"BounceRequired"}
    [] ~kind.valid                -> {"CannotTranslate"}
    [] mapping = "AlwaysBounce"   -> {"BounceRequired"}
    [] mapping = "UseHal"         -> UseHal(kind)
    [] OTHER                      -> {WalkMdlChain(kind)}

\* The NET_BUFFER's packet is made; the last one of an NBL carries the NBL.
PutPacket(ignore, count) ==
  LET last == CurrentNetBuffer = Len(NetBuffersOf(CurrentNbl))
  IN  /\ packets' = [packets EXCEPT ![pr.end] =
           [ignore   |-> ignore,
            index    |-> fr.end,
            count    |-> count,
            complete |-> IF last THEN CurrentNbl ELSE Nothing,
            nb       |-> Bytes(CurrentNbl, CurrentNetBuffer)]]
      /\ currentNbl' = IF last THEN Tail(currentNbl) ELSE currentNbl
      /\ currentNb'  = IF last THEN 0 ELSE CurrentNetBuffer + 1
      /\ pr' = [pr EXCEPT !.end = Advance(PacketSlots, pr.end, 1)]
      /\ fr' = [fr EXCEPT !.end = Advance(FragmentSlots, fr.end, count)]
      /\ produced' = TRUE

MapNetBuffer ==
  /\ TranslatingBuffers
  /\ "Success" \in TranslationResults(CurrentKind)
  /\ PutPacket(FALSE, CurrentKind.fragments)
  /\ fragments' = [f \in DOMAIN fragments |->
                     IF f \in Elements(FragmentSlots, fr.end, CurrentKind.fragments)
                     THEN Bytes(CurrentNbl, CurrentNetBuffer) ELSE fragments[f]]
  /\ sgl' = IF mapping = "UseHal" THEN sgl \cup {pr.end} ELSE sgl
  /\ UNCHANGED <<mapping, life, readyToStop, pc, awake, completed, completedChain, queue,
                 fragmentContext, pool, owners, clones>>

BounceNetBuffer ==
  /\ TranslatingBuffers
  /\ "BounceRequired" \in TranslationResults(CurrentKind)
  /\ AvailableFragments > 0 /\ CurrentKind.valid /\ free # {}
  /\ PutPacket(FALSE, 1)
  /\ LET b == CHOOSE b \in free : TRUE
     IN  /\ free' = free \ {b}
         /\ content' = [content EXCEPT ![b] = Bytes(CurrentNbl, CurrentNetBuffer)]
         /\ fragments' = [fragments EXCEPT ![fr.end] = b]
         /\ fragmentContext' = [fragmentContext EXCEPT ![fr.end] = b]
  /\ over' = IF fr.end \in UNION {FragmentsOf(p) : p \in ReturnedPackets}
             THEN over \cup {pr.end} ELSE over
  /\ lost' = lost \cup ({fragmentContext[fr.end]} \ {Nothing})
  /\ UNCHANGED <<mapping, life, readyToStop, pc, awake, completed, completedChain, queue, owners,
                 sgl, clones>>

\* A NET_BUFFER that never translates gets a packet that the NIC ignores.
\* BounceNetBuffer finds that out once it has a fragment; segmentation fails
\* for want of memory.
IgnoreNetBuffer ==
  /\ Translating
  /\ \/ IsSoftwareGsoRequired
     \/ /\ TranslatingBuffers
        /\ \/ "CannotTranslate" \in TranslationResults(CurrentKind)
           \/ /\ "BounceRequired" \in TranslationResults(CurrentKind)
              /\ AvailableFragments > 0 /\ ~CurrentKind.valid
  /\ PutPacket(TRUE, 0)
  /\ UNCHANGED <<mapping, life, readyToStop, pc, awake, completed, completedChain, queue, fragments,
                 fragmentContext, pool, owners, sgl, clones>>

\* Out of packets, fragments, bounce buffers or map registers: later again.
StopTranslating ==
  /\ pc = "translate"
  /\ \/ ~Translating /\ UNCHANGED currentNb
     \/ /\ TranslatingBuffers
        /\ \/ "InsufficientResources" \in TranslationResults(CurrentKind)
           \/ /\ "BounceRequired" \in TranslationResults(CurrentKind)
              /\ AvailableFragments = 0 \/ (CurrentKind.valid /\ free = {})
        /\ currentNb' = CurrentNetBuffer
  /\ pc' = "yield"
  /\ UNCHANGED <<mapping, life, readyToStop, awake, produced, completed, completedChain, queue, rings,
                 pool, currentNbl, owners, sgl, clones>>

\* YieldToNetAdapter: the driver's Advance may give back packets.  A stopping
\* queue drains only if something came back.
YieldToNetAdapter ==
  /\ pc = "yield"
  /\ \E k \in 0 .. PacketSlots : Return(k)
  /\ IF life = "stopping" /\ pr'.next = pr'.begin
     THEN pc' = "end" /\ UNCHANGED completed
     ELSE pc' = "drain" /\ completed' = FALSE
  /\ UNCHANGED <<mapping, life, readyToStop, awake, produced, completedChain, queue, packets,
                 fragmentContext, pool, chain, owners, sgl, clones>>

\* Mutant: FreeBounceBuffers leaves the pointer to the buffer behind.
CompletePacketKeepsContext ==
  /\ pc = "drain" /\ AnyReturnedPackets /\ Cardinality(completedChain) < Batch
  /\ LET p        == pr.next
         bounced  == IF packets[p].ignore THEN {}
                     ELSE {f \in FragmentsOf(p) : fragmentContext[f] # Nothing}
         complete == packets[p].complete
     IN  /\ sgl' = sgl \ {p} /\ over' = over \ {p}
         /\ free' = free \cup {fragmentContext[f] : f \in bounced}
         /\ content' = [b \in Buffers |-> IF b \in free' THEN Nothing ELSE content[b]]
         /\ packets' = [packets EXCEPT ![p] = EmptyPacket]
         /\ IF complete = Nothing
            THEN UNCHANGED <<completedChain, clones>>
            ELSE /\ completedChain' = completedChain \cup {complete.nbl}
                 /\ clones' = IF complete.clone THEN clones \ {complete.nbl} ELSE clones
  /\ pr' = [pr EXCEPT !.next = Advance(PacketSlots, pr.next, 1)]
  /\ completed' = TRUE
  /\ UNCHANGED <<mapping, life, readyToStop, pc, awake, produced, queue, fr, fragments,
                 fragmentContext, lost, chain, owners>>

\* CompletePackets, one packet: its resources return, and the NBL it carries
\* is completed, a clone in the name of its original.
CompletePacket ==
  /\ pc = "drain" /\ AnyReturnedPackets /\ Cardinality(completedChain) < Batch
  /\ LET p        == pr.next
         bounced  == IF packets[p].ignore THEN {}
                     ELSE {f \in FragmentsOf(p) : fragmentContext[f] # Nothing}
         complete == packets[p].complete
     IN  /\ sgl' = sgl \ {p} /\ over' = over \ {p}
         /\ free' = free \cup {fragmentContext[f] : f \in bounced}
         /\ content' = [b \in Buffers |-> IF b \in free' THEN Nothing ELSE content[b]]
         /\ fragmentContext' = [f \in DOMAIN fragmentContext |->
                                  IF f \in bounced THEN Nothing ELSE fragmentContext[f]]
         /\ packets' = [packets EXCEPT ![p] = EmptyPacket]
         /\ IF complete = Nothing
            THEN UNCHANGED <<completedChain, clones>>
            ELSE /\ completedChain' = completedChain \cup {complete.nbl}
                 /\ clones' = IF complete.clone THEN clones \ {complete.nbl} ELSE clones
  /\ pr' = [pr EXCEPT !.next = Advance(PacketSlots, pr.next, 1)]
  /\ completed' = TRUE
  /\ UNCHANGED <<mapping, life, readyToStop, pc, awake, produced, queue, fr, fragments,
                 lost, chain, owners>>

\* Mutant: only produced packets count as work.
EndPollProduced ==
  /\ \/ pc = "end"
     \/ pc = "drain" /\ (~AnyReturnedPackets \/ Cardinality(completedChain) >= Batch)
  /\ pc' = "idle"
  /\ awake' = (awake \/ produced)
  /\ atOs' = atOs \cup completedChain /\ completedChain' = {}
  /\ UNCHANGED <<mapping, life, readyToStop, produced, completed, queue, rings, pool, chain,
                 sending, strayClones, sgl, clones>>

\* The completed chain goes to NDIS.  The poll returns its work; with none the
\* context waits for a notification.
EndPoll ==
  /\ \/ pc = "end"
     \/ pc = "drain" /\ (~AnyReturnedPackets \/ Cardinality(completedChain) >= Batch)
  /\ pc' = "idle"
  /\ awake' = (awake \/ produced \/ completed)
  /\ atOs' = atOs \cup completedChain /\ completedChain' = {}
  /\ UNCHANGED <<mapping, life, readyToStop, produced, completed, queue, rings, pool, chain,
                 sending, strayClones, sgl, clones>>

Poll ==
  \/ TransmitNbls \/ TransmitNblsStopping
  \/ SegmentNetBufferList \/ MapNetBuffer \/ BounceNetBuffer \/ IgnoreNetBuffer
  \/ StopTranslating
  \/ YieldToNetAdapter \/ CompletePacket \/ EndPoll

Next ==
  \/ \E n \in Nbls : Send(n) \/ QueueNetBufferList(n)
  \/ Start \/ Cancel \/ Stop \/ NicNotifies
  \/ Poll

Spec == Init /\ [][Next]_vars

\* The context runs what it has a reason to run, senders and Stop go on, and the
\* device interrupts for the packets it holds and returns some in the end.
Fairness ==
  /\ WF_vars(Poll) /\ WF_vars(NicNotifies) /\ WF_vars(Stop)
  /\ SF_vars(YieldToNetAdapter /\ pr'.begin # pr.begin)
  /\ \A n \in Nbls : WF_vars(QueueNetBufferList(n))

FairSpec == Spec /\ Fairness

---------------------------------------------------------------------------
(* Properties. *)

Undrained == Elements(PacketSlots, pr.next, Count(PacketSlots, pr.next, pr.end))

\* What the NIC reads when it sends packet p.
Payload(p) == {IF fragments[f] \in Buffers THEN content[fragments[f]] ELSE fragments[f] :
                 f \in FragmentsOf(p)}

BuffersOf(p) == {fragments[f] : f \in FragmentsOf(p)} \cap Buffers

\* As long as the NIC holds a packet, its NBL has not been given back to its
\* owner, and its fragments are the NIC's and no other packet's.  The packet
\* describes the bytes of its NET_BUFFER, in bounce buffers that are in use,
\* unless it was bounced into a fragment of a packet that came back but that no
\* drain had reached: that one's drain frees its buffer.
PacketsKeepTheirData ==
  \A p \in NicPackets :
    LET nb == packets[p].nb
    IN  /\ nb.item.nbl \notin atOs \cup completedChain
        /\ ~packets[p].ignore =>
             /\ FragmentsOf(p) \subseteq NicFragments
             /\ \A q \in NicPackets \ {p} :
                  FragmentsOf(p) \cap FragmentsOf(q) = {}
             /\ p \notin over => Payload(p) = {nb} /\ BuffersOf(p) \cap free = {}

\* How often an NBL, or the clone that stands for it, is in each place.
Places(n) ==
  Cardinality({n} \cap atOs) + Cardinality({n} \cap sending)
  + Cardinality({n} \cap completedChain)
  + Cardinality({i \in DOMAIN queue : queue[i].nbl = n})
  + Cardinality({i \in DOMAIN currentNbl : currentNbl[i].nbl = n})
  + Cardinality({p \in DOMAIN packets : packets[p].complete \in {Original(n), Clone(n)}})

\* Every NBL is in one place: with its owner, on its way to the queue, in the
\* queue, in the current chain, with the last packet made of it or in the chain
\* that is being completed.  An NBL whose clone a stop has given to NDIS
\* (AbortNbls) is nowhere.
NblsAreSomewhere == \A n \in Nbls : Places(n) = IF n \in strayClones THEN 0 ELSE 1

\* What packets have taken from the bounce pool, the HAL and the segmentation
\* is what undrained packets hold, no less and no more.  Bounce buffers whose
\* FragmentContext a later packet has overwritten never come back.
ResourcesComeBack ==
  LET noted == {fragmentContext[f] : f \in UNION {FragmentsOf(p) : p \in Undrained}} \ {Nothing}
  IN /\ Buffers \ free = noted \cup lost /\ noted \cap lost = {}
     /\ sgl \subseteq Undrained
     /\ clones \ strayClones =
          {n \in Nbls : \/ \E i \in DOMAIN currentNbl : currentNbl[i] = Clone(n)
                        \/ \E p \in DOMAIN packets : packets[p].complete = Clone(n)}

\* Neither an NBL nor a resource is lost, or given back twice.
NothingLostOrDoubled == NblsAreSomewhere /\ ResourcesComeBack

\* The HAL has no map registers for the current NBL, because of other devices,
\* and the queue has no packet out whose return would wake it.
RefusedByHal ==
  /\ life = "started" /\ pc = "idle" /\ ~awake
  /\ mapping = "UseHal" /\ SharedDma
  /\ currentNbl # <<>> /\ Undrained = {}

\* All bounce buffers were lost.
PoolLost == Buffers # {} /\ lost = Buffers

\* An NBL that is queued returns to its owner, unless its clone has gone astray
\* or the queue sleeps for want of map registers that others hold, or of bounce
\* buffers that nobody gives back; and a stop ends unless a clone has gone astray.
SentComesBack ==
  /\ \A n \in Nbls : n \in sending ~> (n \in atOs \cup strayClones \/ RefusedByHal \/ PoolLost)
  /\ life = "stopping" ~> (life = "stopped" \/ strayClones # {})

=============================================================================
