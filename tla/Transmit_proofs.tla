---------------------------- MODULE Transmit_proofs ----------------------------
(****************************************************************************)
(* Proofs about Transmit, for any NBLs and bounce buffers and rings of any  *)
(* size: where every NBL is, that packets keep their data, and what comes   *)
(* back of the resources, wherever a drain ends.                            *)
(****************************************************************************)
EXTENDS Transmit, ListLemmas

-----------------------------------------------------------------------------
(* Rings: indexes modulo the number of slots, by cases.                     *)

LEMMA Modulo ==
  ASSUME NEW s \in Nat \ {0}, NEW a \in Nat, a < 2 * s
  PROVE  a % s = IF a < s THEN a ELSE a - s
<1> DEFINE d == a \div s
           u == a % s
<1>1. d \in Nat /\ u \in 0 .. s - 1 /\ a = s * d + u
  OBVIOUS
<1> HIDE DEF d, u
<1>2. d = 0 \/ d = 1
  <2>1. ASSUME d >= 2 PROVE FALSE
    <3>1. s * d >= s * 2
      BY <1>1, <2>1
    <3> QED
      BY <1>1, <3>1
  <2> QED
    BY <1>1, <2>1
<1>3. a = (IF d = 0 THEN 0 ELSE s) + u
  BY <1>1, <1>2
<1>4. u = IF a < s THEN a ELSE a - s
  BY <1>1, <1>3
<1> QED
  BY <1>4 DEF u

LEMMA AdvanceIs ==
  ASSUME NEW s \in Nat \ {0}, NEW i \in 0 .. s - 1, NEW k \in 0 .. s
  PROVE  /\ Advance(s, i, k) = IF i + k < s THEN i + k ELSE i + k - s
         /\ Advance(s, i, k) \in 0 .. s - 1
<1> DEFINE a == i + k
<1>1. a \in Nat /\ a < 2 * s
  OBVIOUS
<1> HIDE DEF a
<1>3. a % s = IF a < s THEN a ELSE a - s
  BY <1>1, Modulo
<1>2. Advance(s, i, k) = IF i + k < s THEN i + k ELSE i + k - s
  BY <1>3 DEF Advance, a
<1> QED
  BY <1>2

LEMMA CountIs ==
  ASSUME NEW s \in Nat \ {0}, NEW i \in 0 .. s - 1, NEW j \in 0 .. s - 1
  PROVE  /\ Count(s, i, j) = IF i <= j THEN j - i ELSE j - i + s
         /\ Count(s, i, j) \in 0 .. s - 1
<1>1. j - i + s \in Nat /\ j - i + s < 2 * s
  OBVIOUS
<1>2. Count(s, i, j) = IF j - i + s < s THEN j - i + s ELSE (j - i + s) - s
  BY <1>1, Modulo DEF Count
<1> QED
  BY <1>2

\* An index is among the k from i on if it is fewer than k ahead of i.
LEMMA ElementsAre ==
  ASSUME NEW s \in Nat \ {0}, NEW i \in 0 .. s - 1, NEW k \in 0 .. s
  PROVE  Elements(s, i, k) = {j \in 0 .. s - 1 : Count(s, i, j) < k}
<1>1. ASSUME NEW m \in 0 .. k - 1
      PROVE  Advance(s, i, m) \in 0 .. s - 1 /\ Count(s, i, Advance(s, i, m)) < k
  <2>1. m \in 0 .. s
    OBVIOUS
  <2>2. /\ Advance(s, i, m) = IF i + m < s THEN i + m ELSE i + m - s
        /\ Advance(s, i, m) \in 0 .. s - 1
    BY <2>1, AdvanceIs
  <2> DEFINE j == Advance(s, i, m)
  <2> HIDE DEF j
  <2>3. Count(s, i, j) = IF i <= j THEN j - i ELSE j - i + s
    BY <2>2, CountIs DEF j
  <2> QED
    BY <2>2, <2>3 DEF j
<1>2. ASSUME NEW j \in 0 .. s - 1, Count(s, i, j) < k
      PROVE  \E m \in 0 .. k - 1 : j = Advance(s, i, m)
  <2>1. /\ Count(s, i, j) = IF i <= j THEN j - i ELSE j - i + s
        /\ Count(s, i, j) \in 0 .. s - 1
    BY CountIs
  <2> DEFINE m == Count(s, i, j)
  <2> HIDE DEF m
  <2>2. m \in 0 .. k - 1 /\ m \in 0 .. s
    BY <1>2, <2>1 DEF m
  <2>3. Advance(s, i, m) = IF i + m < s THEN i + m ELSE i + m - s
    BY <2>2, AdvanceIs
  <2>4. Advance(s, i, m) = j
    BY <2>1, <2>3 DEF m
  <2> QED
    BY <2>2, <2>4
<1> QED
  BY <1>1, <1>2 DEF Elements

\* Three indexes of a ring.
LEMMA CountBetween ==
  ASSUME NEW s \in Nat \ {0}, NEW i \in 0 .. s - 1, NEW j \in 0 .. s - 1, NEW k \in 0 .. s - 1
  PROVE  /\ Count(s, i, j) <= Count(s, i, k) => Count(s, j, k) = Count(s, i, k) - Count(s, i, j)
         /\ Count(s, i, j) > Count(s, i, k) => Count(s, j, k) = Count(s, i, k) - Count(s, i, j) + s
         /\ Count(s, i, i) = 0
         /\ Count(s, i, j) = 0 => i = j
         /\ Count(s, i, j) = Count(s, i, k) => j = k
<1>1. /\ Count(s, i, j) = IF i <= j THEN j - i ELSE j - i + s
      /\ Count(s, i, k) = IF i <= k THEN k - i ELSE k - i + s
      /\ Count(s, j, k) = IF j <= k THEN k - j ELSE k - j + s
      /\ Count(s, i, i) = IF i <= i THEN i - i ELSE i - i + s
  BY CountIs
<1> QED
  BY <1>1

\* Indexes counted from one that advances, or to one that does.
LEMMA CountFromAdvanced ==
  ASSUME NEW s \in Nat \ {0}, NEW i \in 0 .. s - 1, NEW k \in 0 .. s - 1, NEW j \in 0 .. s - 1
  PROVE  /\ Count(s, i, Advance(s, i, k)) = k
         /\ Count(s, Advance(s, i, k), j) = IF k <= Count(s, i, j) THEN Count(s, i, j) - k
                                            ELSE Count(s, i, j) - k + s
<1>1. k \in 0 .. s
  OBVIOUS
<1> DEFINE a == Advance(s, i, k)
<1>2. a = (IF i + k < s THEN i + k ELSE i + k - s) /\ a \in 0 .. s - 1
  BY <1>1, AdvanceIs
<1> HIDE DEF a
<1>3. /\ Count(s, i, j) = IF i <= j THEN j - i ELSE j - i + s
      /\ Count(s, i, a) = IF i <= a THEN a - i ELSE a - i + s
      /\ Count(s, a, j) = IF a <= j THEN j - a ELSE j - a + s
  BY <1>2, CountIs
<1>4. Count(s, i, a) = k
  BY <1>2, <1>3
<1>5. Count(s, a, j) = IF k <= Count(s, i, j) THEN Count(s, i, j) - k ELSE Count(s, i, j) - k + s
  BY <1>2, <1>3
<1> QED
  BY <1>4, <1>5 DEF a

LEMMA CountToAdvanced ==
  ASSUME NEW s \in Nat \ {0}, NEW i \in 0 .. s - 1, NEW j \in 0 .. s - 1, NEW k \in 0 .. s - 1
  PROVE  Count(s, i, Advance(s, j, k)) = IF Count(s, i, j) + k < s THEN Count(s, i, j) + k
                                         ELSE Count(s, i, j) + k - s
<1>1. k \in 0 .. s
  OBVIOUS
<1> DEFINE a == Advance(s, j, k)
<1>2. a = (IF j + k < s THEN j + k ELSE j + k - s) /\ a \in 0 .. s - 1
  BY <1>1, AdvanceIs
<1> HIDE DEF a
<1>3. /\ Count(s, i, j) = IF i <= j THEN j - i ELSE j - i + s
      /\ Count(s, i, a) = IF i <= a THEN a - i ELSE a - i + s
  BY <1>2, CountIs
<1>4. Count(s, i, a) = IF Count(s, i, j) + k < s THEN Count(s, i, j) + k
                       ELSE Count(s, i, j) + k - s
  BY <1>2, <1>3
<1> QED
  BY <1>4 DEF a

\* The same elements counted from the end.
LEMMA ElementsBehind ==
  ASSUME NEW s \in Nat \ {0}, NEW i \in 0 .. s - 1, NEW e \in 0 .. s - 1, NEW k \in Nat,
         k <= Count(s, i, e)
  PROVE  Elements(s, i, k) = {j \in 0 .. s - 1 : /\ Count(s, i, e) - k < Count(s, j, e)
                                                 /\ Count(s, j, e) <= Count(s, i, e)}
<1>1. Count(s, i, e) \in 0 .. s - 1
  BY CountIs
<1>2. k \in 0 .. s
  BY <1>1
<1>3. Elements(s, i, k) = {j \in 0 .. s - 1 : Count(s, i, j) < k}
  BY <1>2, ElementsAre
<1>4. ASSUME NEW j \in 0 .. s - 1
      PROVE  Count(s, i, j) < k
               <=> Count(s, i, e) - k < Count(s, j, e) /\ Count(s, j, e) <= Count(s, i, e)
  <2>1. /\ Count(s, i, j) \in 0 .. s - 1 /\ Count(s, j, e) \in 0 .. s - 1
        /\ Count(s, i, j) <= Count(s, i, e) => Count(s, j, e) = Count(s, i, e) - Count(s, i, j)
        /\ Count(s, i, j) > Count(s, i, e) =>
             Count(s, j, e) = Count(s, i, e) - Count(s, i, j) + s
    <3>1. Count(s, i, j) \in 0 .. s - 1 /\ Count(s, j, e) \in 0 .. s - 1
      BY CountIs
    <3>2. Count(s, i, j) <= Count(s, i, e) => Count(s, j, e) = Count(s, i, e) - Count(s, i, j)
      BY CountBetween
    <3>3. Count(s, i, j) > Count(s, i, e) => Count(s, j, e) = Count(s, i, e) - Count(s, i, j) + s
      BY CountBetween, ZenonT(40)
    <3> QED
      BY <3>1, <3>2, <3>3
  <2> QED
    BY <1>1, <2>1
<1> QED
  BY <1>3, <1>4

-----------------------------------------------------------------------------
(* The invariant.                                                           *)

PacketIndexes   == 0 .. PacketSlots - 1
FragmentIndexes == 0 .. FragmentSlots - 1

\* What a packet or a fragment describes.
Extents == {x \in [item : Items, nb : Nat] : x.nb \in DOMAIN NetBuffersOf(x.item)}
Packet  == [ignore : BOOLEAN, index : FragmentIndexes, count : FragmentIndexes,
            complete : Items \cup {Nothing}, nb : Extents \cup {Nothing}]
Sendable == {item \in Items : NetBuffersOf(item) # <<>>}

TypeInv ==
  /\ mapping \in Mappings
  /\ life \in {"stopped", "started", "stopping"} /\ readyToStop \in BOOLEAN
  /\ pc \in {"idle", "translate", "yield", "drain", "end"}
  /\ awake \in BOOLEAN /\ produced \in BOOLEAN /\ completed \in BOOLEAN
  /\ completedChain \in SUBSET Nbls /\ IsFiniteSet(completedChain)
  /\ atOs \in SUBSET Nbls /\ sending \in SUBSET Nbls /\ strayClones \in SUBSET Nbls
  /\ queue \in Seq(Sendable) /\ currentNbl \in Seq(Sendable) /\ currentNb \in Nat
  /\ pr \in [next : PacketIndexes, begin : PacketIndexes, end : PacketIndexes]
  /\ fr \in [begin : FragmentIndexes, end : FragmentIndexes]
  /\ packets \in [PacketIndexes -> Packet]
  /\ fragments \in [FragmentIndexes -> Extents \cup Buffers \cup {Nothing}]
  /\ fragmentContext \in [FragmentIndexes -> Buffers \cup {Nothing}]
  /\ free \in SUBSET Buffers /\ content \in [Buffers -> Extents \cup {Nothing}]
  /\ over \in SUBSET PacketIndexes /\ lost \in SUBSET Buffers
  /\ sgl \in SUBSET PacketIndexes /\ clones \in SUBSET Nbls

\* The translation goes on at a NET_BUFFER of the first NBL; nothing has been
\* cloned before it is there.
ChainInv ==
  /\ currentNbl = <<>> => currentNb = 0
  /\ currentNbl # <<>> /\ currentNb # 0 =>
       currentNb \in DOMAIN NetBuffersOf(Head(currentNbl))
  /\ \A i \in DOMAIN queue : ~queue[i].clone

\* The packet ring from OSReserved0: what has come back, then what the NIC has,
\* then nothing.
Offset(p) == Count(PacketSlots, pr.next, p)
Back      == Offset(pr.begin)
Filled    == Offset(pr.end)
RingInv ==
  /\ Back <= Filled
  /\ \A p \in PacketIndexes : Offset(p) >= Filled => packets[p] = EmptyPacket
  /\ \A p \in PacketIndexes : Offset(p) < Filled => packets[p].nb # Nothing
  /\ \A p \in sgl : Offset(p) < Filled

\* What the stages of the queue and of the poll function have reached.
LifeInv ==
  /\ pc # "drain" => completedChain = {}
  /\ pc = "drain" => Cardinality(completedChain) + Back <= PacketSlots - 1
  /\ pc = "translate" => life = "started"
  /\ pc = "end" => life = "stopping"
  /\ life = "stopped" => pc = "idle" /\ Filled = 0
  /\ readyToStop => life = "stopping" /\ Filled = 0

\* Who has the NBLs.
Named(s)      == {s[i].nbl : i \in DOMAIN s}
Distinct(s)   == \A i, j \in DOMAIN s : s[i].nbl = s[j].nbl => i = j
Carries(p, n) == packets[p].complete # Nothing /\ packets[p].complete.nbl = n
Carried       == {n \in Nbls : \E p \in PacketIndexes : Carries(p, n)}
NblWhere == {"os", "sending", "completing", "queue", "current", "packets", "stray"}
NblAt    == [os |-> atOs, sending |-> sending, completing |-> completedChain,
             queue |-> Named(queue), current |-> Named(currentNbl), packets |-> Carried,
             stray |-> strayClones]
NblInv ==
  /\ Placed(NblAt, NblWhere, Nbls)
  /\ Distinct(queue) /\ Distinct(currentNbl)
  /\ \A n \in Nbls : \A p, q \in PacketIndexes : Carries(p, n) /\ Carries(q, n) => p = q

\* The clones are those of the current chain and of the packets.
Cloned(s) == {n \in Nbls : \E i \in DOMAIN s : s[i] = Clone(n)}
CloneInv ==
  clones \ strayClones =
    {n \in Nbls : n \in Cloned(currentNbl) \/ \E p \in PacketIndexes : packets[p].complete = Clone(n)}

\* A packet is made of an NBL that comes back with it or a later one, or that
\* is still being translated.
OriginInv ==
  \A p \in PacketIndexes, n \in Nbls : Offset(p) < Filled /\ packets[p].nb.item.nbl = n =>
    \/ \E q \in PacketIndexes : Offset(p) <= Offset(q) /\ Carries(q, n)
    \/ currentNbl # <<>> /\ Head(currentNbl).nbl = n

OwnersInv == /\ TypeInv /\ ChainInv /\ RingInv /\ LifeInv /\ NblInv /\ CloneInv /\ OriginInv

\* The fragments of a packet that the NIC has, counted from the end of the ring,
\* and which of them come first.
Behind(f)  == Count(FragmentSlots, f, fr.end)
From(p)    == Behind(packets[p].index)
To(p)      == From(p) - packets[p].count
Nic(p)     == Back <= Offset(p) /\ Offset(p) < Filled
Owns(p, f) == Nic(p) /\ To(p) < Behind(f) /\ Behind(f) <= From(p)
FragmentInv ==
  /\ \A p \in PacketIndexes : Offset(p) < Filled => (packets[p].ignore <=> packets[p].count = 0)
  /\ \A p \in PacketIndexes : Nic(p) => packets[p].count <= From(p) /\ From(p) <= Behind(fr.begin)
  /\ \A p, q \in PacketIndexes : Nic(p) /\ Nic(q) /\ Offset(p) < Offset(q) => From(q) <= To(p)

\* A fragment of a packet that is not drained: the NIC has the packet, or has
\* given it back, and the fragment may have gone to a later packet.
Holds(p, f) == Offset(p) < Filled /\ f \in FragmentsOf(p)

\* What the fragments that the NIC has point to.
Describes(f, p) ==
  \/ fragments[f] = packets[p].nb
  \/ /\ fragments[f] \in Buffers /\ fragmentContext[f] = fragments[f]
     /\ content[fragments[f]] = packets[p].nb
     /\ \A q \in PacketIndexes : Holds(q, f) => q = p
DataInv ==
  \A p \in PacketIndexes, f \in FragmentIndexes : p \notin over /\ Owns(p, f) => Describes(f, p)

\* A bounce buffer is in the pool, or with one fragment of a packet that is not
\* drained, or lost.
BufferInv ==
  /\ \A f, g \in FragmentIndexes :
       fragmentContext[f] = fragmentContext[g] /\ fragmentContext[f] # Nothing => f = g
  /\ \A b \in Buffers : b \notin free <=> b \in lost \/ \E f \in FragmentIndexes : fragmentContext[f] = b
  /\ \A f \in FragmentIndexes : fragmentContext[f] \notin lost
  /\ \A f \in FragmentIndexes :
       fragmentContext[f] # Nothing => \E p \in PacketIndexes : Holds(p, f)

ContentsInv == FragmentInv /\ DataInv /\ BufferInv

-----------------------------------------------------------------------------
(* Assumptions and types.                                                   *)

LEMMA SizesAreNumbers ==
  /\ PacketSlots \in Nat \ {0} /\ FragmentSlots \in Nat \ {0} /\ MaxFragments \in Nat \ {0}
  /\ PacketSlots > 1 /\ FragmentSlots > 1 /\ Batch \in Nat \ {0}
  BY RingAssumption

\* NBLs, bytes and buffers are not nothing, nor each other.
LEMMA NothingIsApart ==
  /\ Nothing \notin Items /\ Nothing \notin Buffers
  /\ \A x \in Extents : x \notin Buffers /\ x # Nothing
<1>1. Nothing \notin Items /\ Nothing \notin Buffers
  BY NothingAssumption
<1>2. ASSUME NEW x \in Extents PROVE x \notin Buffers /\ x # Nothing
  <2>1. x = Bytes(x.item, x.nb) /\ x.item \in Items /\ x.nb \in DOMAIN NetBuffersOf(x.item)
    BY DEF Extents, Bytes
  <2> QED
    BY <2>1, NothingAssumption
<1> QED
  BY <1>1, <1>2

LEMMA Originals ==
  ASSUME NEW n \in Nbls
  PROVE  /\ Original(n) \in Sendable /\ Original(n).nbl = n /\ ~Original(n).clone
         /\ Clone(n) \in Items /\ Clone(n).nbl = n /\ Clone(n).clone
         /\ Segments[n] # <<>> => Clone(n) \in Sendable
  BY DataAssumption DEF Original, Clone, Items, Sendable, NetBuffersOf

LEMMA ItemIs ==
  ASSUME NEW item \in Items
  PROVE  /\ item.nbl \in Nbls /\ item.clone \in BOOLEAN
         /\ item.clone => item = Clone(item.nbl)
         /\ ~item.clone => item = Original(item.nbl)
  BY DEF Items, Original, Clone

\* The kinds of the NET_BUFFERs of an item.
LEMMA KindsAre ==
  ASSUME NEW item \in Items
  PROVE  /\ NetBuffersOf(item) \in Seq(Kinds)
         /\ Len(NetBuffersOf(item)) \in Nat
         /\ DOMAIN NetBuffersOf(item) = 1 .. Len(NetBuffersOf(item))
<1>1. NetBuffersOf(item) \in Seq(Kinds)
  BY DataAssumption, ItemIs DEF NetBuffersOf
<1> QED
  BY <1>1, LenProperties

\* What the fields of a packet are.
LEMMA CarriesIs ==
  ASSUME TypeInv, NEW p \in PacketIndexes, NEW n \in Nbls
  PROVE  /\ Carries(p, n) <=> packets[p].complete \in {Original(n), Clone(n)}
         /\ packets[p].complete = Clone(n) => Carries(p, n)
<1>1. packets[p].complete \in Items \cup {Nothing}
  BY DEF TypeInv, Packet
<1>2. Original(n) # Nothing /\ Clone(n) # Nothing
  BY Originals, NothingIsApart DEF Sendable
<1> QED
  BY <1>1, <1>2, ItemIs, Originals, NothingIsApart DEF Carries

LEMMA PacketFields ==
  ASSUME NEW x \in Packet
  PROVE  /\ x.ignore \in BOOLEAN /\ x.index \in FragmentIndexes /\ x.count \in FragmentIndexes
         /\ x.complete \in Items \cup {Nothing} /\ x.nb \in Extents \cup {Nothing}
  BY DEF Packet

LEMMA EmptyPacketIs ==
  /\ EmptyPacket \in Packet /\ EmptyPacket.complete = Nothing /\ EmptyPacket.nb = Nothing
  /\ EmptyPacket.count = 0 /\ EmptyPacket.index = 0
  BY SizesAreNumbers DEF EmptyPacket, Packet, FragmentIndexes

\* The lists of items.
LEMMA EmptyItems == Named(<<>>) = {} /\ Distinct(<<>>) /\ Cloned(<<>>) = {}
<1>1. DOMAIN <<>> = {}
  OBVIOUS
<1> QED
  BY <1>1 DEF Named, Distinct, Cloned

LEMMA ItemsAppended ==
  ASSUME NEW s \in Seq(Items), NEW item \in Items
  PROVE  /\ Named(Append(s, item)) = Named(s) \cup {item.nbl}
         /\ Distinct(s) /\ item.nbl \notin Named(s) => Distinct(Append(s, item))
<1> DEFINE t == Append(s, item)
<1>1. /\ DOMAIN s = 1 .. Len(s) /\ Len(s) \in Nat /\ DOMAIN t = 1 .. Len(s) + 1
      /\ \A i \in 1 .. Len(s) : t[i] = s[i]
      /\ t[Len(s) + 1] = item
  BY AppendProperties, LenProperties
<1> HIDE DEF t
<1>2. Named(t) = Named(s) \cup {item.nbl}
  BY <1>1 DEF Named
<1>3. Distinct(s) /\ item.nbl \notin Named(s) => Distinct(t)
  BY <1>1 DEF Distinct, Named
<1> QED
  BY <1>2, <1>3 DEF t

LEMMA ItemsWithoutHead ==
  ASSUME NEW s \in Seq(Items), s # <<>>
  PROVE  /\ Head(s) \in Items /\ Tail(s) \in Seq(Items)
         /\ Named(s) = Named(Tail(s)) \cup {Head(s).nbl}
         /\ Distinct(s) => Distinct(Tail(s)) /\ Head(s).nbl \notin Named(Tail(s))
         /\ \A n \in Nbls : n \in Cloned(s) <=> n \in Cloned(Tail(s)) \/ Head(s) = Clone(n)
<1> DEFINE t == Tail(s)
           h == Head(s)
<1>1. /\ DOMAIN s = 1 .. Len(s) /\ Len(s) \in Nat \ {0} /\ h = s[1] /\ h \in Items
      /\ DOMAIN t = 1 .. Len(s) - 1 /\ t \in Seq(Items)
      /\ \A i \in 1 .. Len(s) - 1 : t[i] = s[i + 1]
  BY HeadTailProperties, LenProperties, EmptySeq
<1> HIDE DEF t, h
<1>2. /\ 1 \in 1 .. Len(s)
      /\ \A i \in 1 .. Len(s) - 1 : i + 1 \in 1 .. Len(s) /\ i + 1 # 1
      /\ \A i \in 1 .. Len(s) : i = 1 \/ (i - 1 \in 1 .. Len(s) - 1 /\ s[i] = t[i - 1])
  BY <1>1
<1>3. Named(s) = Named(t) \cup {h.nbl}
  <2>1. ASSUME NEW i \in 1 .. Len(s) PROVE s[i].nbl \in Named(t) \cup {h.nbl}
    BY <1>1, <1>2 DEF Named
  <2>2. ASSUME NEW i \in 1 .. Len(s) - 1 PROVE t[i].nbl \in Named(s)
    BY <1>1, <1>2 DEF Named
  <2>3. h.nbl \in Named(s)
    BY <1>1, <1>2 DEF Named
  <2> QED
    BY <1>1, <2>1, <2>2, <2>3, ZenonT(40) DEF Named
<1>4. ASSUME Distinct(s) PROVE Distinct(t) /\ h.nbl \notin Named(t)
  <2>1. ASSUME NEW i \in 1 .. Len(s) - 1, NEW j \in 1 .. Len(s) - 1, t[i].nbl = t[j].nbl
        PROVE  i = j
    <3>1. s[i + 1].nbl = s[j + 1].nbl /\ i + 1 \in DOMAIN s /\ j + 1 \in DOMAIN s
      BY <1>1, <1>2, <2>1
    <3>2. i + 1 = j + 1
      BY <3>1, <1>4 DEF Distinct
    <3> QED
      BY <3>2
  <2>2. ASSUME NEW i \in 1 .. Len(s) - 1 PROVE t[i].nbl # h.nbl
    <3>1. i + 1 \in DOMAIN s /\ 1 \in DOMAIN s /\ i + 1 # 1 /\ t[i] = s[i + 1] /\ h = s[1]
      BY <1>1, <1>2
    <3> QED
      BY <3>1, <1>4 DEF Distinct
  <2> QED
    BY <1>1, <2>1, <2>2 DEF Distinct, Named
<1>5. ASSUME NEW n \in Nbls PROVE n \in Cloned(s) <=> n \in Cloned(t) \/ h = Clone(n)
  <2>1. ASSUME NEW i \in 1 .. Len(s), s[i] = Clone(n) PROVE n \in Cloned(t) \/ h = Clone(n)
    BY <1>1, <1>2, <2>1 DEF Cloned
  <2>2. ASSUME NEW i \in 1 .. Len(s) - 1, t[i] = Clone(n) PROVE n \in Cloned(s)
    BY <1>1, <1>2, <2>2 DEF Cloned
  <2>3. h = Clone(n) => n \in Cloned(s)
    BY <1>1, <1>2 DEF Cloned
  <2> QED
    BY <1>1, <2>1, <2>2, <2>3 DEF Cloned
<1> QED
  BY <1>1, <1>3, <1>4, <1>5 DEF t, h

-----------------------------------------------------------------------------
(* The steps of the translation.                                            *)

LEMMA Rings ==
  ASSUME TypeInv
  PROVE  /\ pr.next \in PacketIndexes /\ pr.begin \in PacketIndexes /\ pr.end \in PacketIndexes
         /\ fr.begin \in FragmentIndexes /\ fr.end \in FragmentIndexes
         /\ \A p \in PacketIndexes : Offset(p) \in PacketIndexes
         /\ Back \in PacketIndexes /\ Filled \in PacketIndexes
         /\ \A f \in FragmentIndexes : Behind(f) \in FragmentIndexes
         /\ \A p \in PacketIndexes : packets[p] \in Packet
         /\ PacketIndexes \subseteq Nat /\ FragmentIndexes \subseteq Nat
<1>1. /\ pr.next \in PacketIndexes /\ pr.begin \in PacketIndexes /\ pr.end \in PacketIndexes
      /\ fr.begin \in FragmentIndexes /\ fr.end \in FragmentIndexes
      /\ \A p \in PacketIndexes : packets[p] \in Packet
  BY DEF TypeInv
<1>2. \A p \in PacketIndexes : Offset(p) \in PacketIndexes
  BY <1>1, SizesAreNumbers, CountIs DEF Offset, PacketIndexes
<1>3. \A f \in FragmentIndexes : Behind(f) \in FragmentIndexes
  BY <1>1, SizesAreNumbers, CountIs DEF Behind, FragmentIndexes
<1>4. Back \in PacketIndexes /\ Filled \in PacketIndexes
  BY <1>1, <1>2 DEF Back, Filled
<1>5. PacketIndexes \subseteq Nat /\ FragmentIndexes \subseteq Nat
  BY SizesAreNumbers DEF PacketIndexes, FragmentIndexes
<1> QED
  BY <1>1, <1>2, <1>3, <1>4, <1>5

LEMMA Current ==
  ASSUME TypeInv, ChainInv, currentNbl # <<>>
  PROVE  /\ CurrentNbl \in Sendable /\ CurrentNbl \in Items /\ CurrentNbl.nbl \in Nbls
         /\ Tail(currentNbl) \in Seq(Sendable)
         /\ CurrentNetBuffer \in 1 .. Len(NetBuffersOf(CurrentNbl))
         /\ Len(NetBuffersOf(CurrentNbl)) \in Nat
         /\ CurrentKind \in Kinds
         /\ Bytes(CurrentNbl, CurrentNetBuffer) \in Extents
<1>1. CurrentNbl \in Sendable /\ Tail(currentNbl) \in Seq(Sendable)
  BY HeadTailProperties DEF TypeInv, CurrentNbl
<1>2. CurrentNbl \in Items /\ NetBuffersOf(CurrentNbl) # <<>>
  BY <1>1 DEF Sendable
<1>3. /\ NetBuffersOf(CurrentNbl) \in Seq(Kinds) /\ Len(NetBuffersOf(CurrentNbl)) \in Nat
      /\ DOMAIN NetBuffersOf(CurrentNbl) = 1 .. Len(NetBuffersOf(CurrentNbl))
  BY <1>2, KindsAre
<1>4. Len(NetBuffersOf(CurrentNbl)) # 0
  BY <1>2, <1>3, EmptySeq
<1>5. CurrentNetBuffer \in 1 .. Len(NetBuffersOf(CurrentNbl))
  BY <1>3, <1>4 DEF CurrentNetBuffer, ChainInv, CurrentNbl
<1>6. CurrentKind \in Kinds
  BY <1>3, <1>5, ElementOfSeq DEF CurrentKind
<1>7. Bytes(CurrentNbl, CurrentNetBuffer) \in Extents
  BY <1>2, <1>3, <1>5 DEF Bytes, Extents
<1> QED
  BY <1>1, <1>2, <1>3, <1>5, <1>6, <1>7, ItemIs

LEMMA AvailableIs ==
  ASSUME TypeInv
  PROVE  /\ AvailableFragments = FragmentSlots - 1 - Behind(fr.begin)
         /\ AvailableFragments \in FragmentIndexes
<1>1. AvailableFragments = FragmentSlots - 1 - Behind(fr.begin)
  BY DEF AvailableFragments, Behind
<1>2. Behind(fr.begin) \in FragmentIndexes
  BY Rings
<1> QED
  BY <1>1, <1>2, SizesAreNumbers DEF FragmentIndexes

\* A NET_BUFFER whose fragments the NIC can use as they are has room for them.
LEMMA FragmentsFit ==
  ASSUME TypeInv, NEW kind \in Kinds, "Success" \in TranslationResults(kind)
  PROVE  kind.fragments \in Nat \ {0} /\ kind.fragments <= AvailableFragments
<1>1. kind.fragments \in Nat \ {0} /\ kind.usable \in Nat
  BY DEF Kinds
<1>2. /\ AvailableFragments \in Nat
      /\ MaxFragmentsPerPacket \in Nat
  BY AvailableIs, SizesAreNumbers DEF FragmentIndexes, MaxFragmentsPerPacket, SmallerOf
<1>3. CASE TranslateScatterGatherList(kind) = "Success"
  BY <1>1, <1>2, <1>3 DEF TranslateScatterGatherList
<1>4. CASE WalkMdlChain(kind) = "Success"
  <2> DEFINE maximum == SmallerOf(AvailableFragments, MaxFragmentsPerPacket)
  <2>1. maximum \in Nat /\ maximum <= AvailableFragments
    BY <1>2 DEF SmallerOf
  <2>2. kind.fragments <= maximum
    <3> HIDE DEF maximum
    <3>1. (CASE kind.usable < SmallerOf(kind.fragments, maximum) -> "BounceRequired"
             [] kind.fragments <= maximum /\ kind.usable >= kind.fragments -> "Success"
             [] OTHER -> IF maximum = MaxFragmentsPerPacket THEN "BounceRequired"
                         ELSE "InsufficientResources") = "Success"
      BY <1>4 DEF WalkMdlChain, maximum
    <3> QED
      BY <3>1
  <2> QED
    BY <1>1, <1>2, <2>1, <2>2
<1>5. TranslateScatterGatherList(kind) = "Success" \/ WalkMdlChain(kind) = "Success"
  <2>1. TranslationResults(kind) \in
          {{"BounceRequired"}, {"CannotTranslate"}, UseHal(kind), {WalkMdlChain(kind)}}
    BY DEF TranslationResults
  <2>2. "Success" \in UseHal(kind) => TranslateScatterGatherList(kind) = "Success"
    BY DEF UseHal
  <2> QED
    BY <2>1, <2>2
<1> QED
  BY <1>1, <1>3, <1>4, <1>5

\* What PutPacket does.
LEMMA PacketPut ==
  ASSUME TypeInv, ChainInv, currentNbl # <<>>, NEW ignore \in BOOLEAN,
         NEW count \in FragmentIndexes, PutPacket(ignore, count)
  PROVE  /\ packets' \in [PacketIndexes -> Packet]
         /\ packets'[pr.end].ignore = ignore /\ packets'[pr.end].index = fr.end
         /\ packets'[pr.end].count = count
         /\ packets'[pr.end].nb = Bytes(CurrentNbl, CurrentNetBuffer)
         /\ packets'[pr.end].nb # Nothing
         /\ \A p \in PacketIndexes \ {pr.end} : packets'[p] = packets[p]
         /\ currentNbl' \in Seq(Sendable) /\ currentNb' \in Nat
         /\ pr' = [pr EXCEPT !.end = Advance(PacketSlots, pr.end, 1)]
         /\ pr' \in [next : PacketIndexes, begin : PacketIndexes, end : PacketIndexes]
         /\ fr' = [fr EXCEPT !.end = Advance(FragmentSlots, fr.end, count)]
         /\ fr' \in [begin : FragmentIndexes, end : FragmentIndexes]
         /\ produced'
         /\ \/ /\ packets'[pr.end].complete = CurrentNbl /\ packets'[pr.end].complete # Nothing
               /\ currentNbl' = Tail(currentNbl) /\ currentNb' = 0
            \/ /\ packets'[pr.end].complete = Nothing /\ currentNbl' = currentNbl
               /\ currentNb' \in DOMAIN NetBuffersOf(CurrentNbl)
<1> DEFINE last == CurrentNetBuffer = Len(NetBuffersOf(CurrentNbl))
           new == [ignore |-> ignore, index |-> fr.end, count |-> count,
                   complete |-> IF last THEN CurrentNbl ELSE Nothing,
                   nb |-> Bytes(CurrentNbl, CurrentNetBuffer)]
<1>1. /\ CurrentNbl \in Sendable /\ CurrentNbl \in Items /\ Tail(currentNbl) \in Seq(Sendable)
      /\ CurrentNetBuffer \in 1 .. Len(NetBuffersOf(CurrentNbl))
      /\ Len(NetBuffersOf(CurrentNbl)) \in Nat
      /\ Bytes(CurrentNbl, CurrentNetBuffer) \in Extents
  BY Current
<1>2. /\ packets' = [packets EXCEPT ![pr.end] = new]
      /\ currentNbl' = IF last THEN Tail(currentNbl) ELSE currentNbl
      /\ currentNb'  = IF last THEN 0 ELSE CurrentNetBuffer + 1
      /\ pr' = [pr EXCEPT !.end = Advance(PacketSlots, pr.end, 1)]
      /\ fr' = [fr EXCEPT !.end = Advance(FragmentSlots, fr.end, count)]
      /\ produced' = TRUE
  BY DEF PutPacket
<1>3. /\ pr.end \in PacketIndexes /\ fr.end \in FragmentIndexes
      /\ packets \in [PacketIndexes -> Packet]
  BY DEF TypeInv
<1>4. new \in Packet /\ new.complete = (IF last THEN CurrentNbl ELSE Nothing) /\ new.index = fr.end
      /\ new.count = count /\ new.ignore = ignore /\ new.nb = Bytes(CurrentNbl, CurrentNetBuffer)
  <2> HIDE DEF last
  <2> QED
    BY <1>1, <1>3 DEF Packet
<1> HIDE DEF new
<1>5. /\ packets' \in [PacketIndexes -> Packet] /\ packets'[pr.end] = new
      /\ \A p \in PacketIndexes \ {pr.end} : packets'[p] = packets[p]
  BY <1>2, <1>3, <1>4
<1>6. new.nb # Nothing
  BY <1>1, <1>4, NothingIsApart
<1>7. /\ Advance(PacketSlots, pr.end, 1) \in PacketIndexes
      /\ Advance(FragmentSlots, fr.end, count) \in FragmentIndexes
  <2>1. 1 \in 0 .. PacketSlots /\ count \in 0 .. FragmentSlots
    BY SizesAreNumbers DEF FragmentIndexes
  <2> QED
    BY <1>3, <2>1, SizesAreNumbers, AdvanceIs DEF PacketIndexes, FragmentIndexes
<1>8. /\ pr' \in [next : PacketIndexes, begin : PacketIndexes, end : PacketIndexes]
      /\ fr' \in [begin : FragmentIndexes, end : FragmentIndexes]
  BY <1>2, <1>7 DEF TypeInv
<1>9. CASE last
  <2>1. new.complete = CurrentNbl /\ new.complete # Nothing
    BY <1>1, <1>4, <1>9, NothingIsApart
  <2>2. currentNbl' = Tail(currentNbl) /\ currentNb' = 0
    BY <1>2, <1>9
  <2> QED
    BY <1>1, <1>2, <1>4, <1>5, <1>6, <1>8, <2>1, <2>2
<1>10. CASE ~last
  <2>1. new.complete = Nothing
    BY <1>4, <1>10
  <2>2. currentNbl' = currentNbl /\ currentNb' = CurrentNetBuffer + 1
    BY <1>2, <1>10
  <2>3. currentNb' \in 1 .. Len(NetBuffersOf(CurrentNbl))
    BY <1>1, <1>10, <2>2
  <2>4. currentNb' \in DOMAIN NetBuffersOf(CurrentNbl) /\ currentNb' \in Nat
    BY <1>1, <2>3, KindsAre
  <2> QED
    BY <1>2, <1>4, <1>5, <1>6, <1>8, <2>1, <2>2, <2>4 DEF TypeInv
<1> QED
  BY <1>9, <1>10

\* What the driver gives back.
Returned(k) == {p \in PacketIndexes : Count(PacketSlots, pr.begin, p) < k}

LEMMA ReturnedAre ==
  ASSUME TypeInv, NEW k \in 0 .. PacketSlots, k <= Count(PacketSlots, pr.begin, pr.end)
  PROVE  /\ Elements(PacketSlots, pr.begin, k) = Returned(k)
         /\ k \in PacketIndexes
         /\ \A p \in PacketIndexes :
              (\E i \in 0 .. k - 1 : p = Advance(PacketSlots, pr.begin, i)) <=> p \in Returned(k)
<1>1. pr.begin \in 0 .. PacketSlots - 1 /\ pr.end \in 0 .. PacketSlots - 1
  BY Rings DEF PacketIndexes
<1>2. Elements(PacketSlots, pr.begin, k) = Returned(k)
  BY <1>1, SizesAreNumbers, ElementsAre DEF Returned, PacketIndexes
<1>3. Count(PacketSlots, pr.begin, pr.end) \in 0 .. PacketSlots - 1
  BY <1>1, SizesAreNumbers, CountIs
<1>4. k \in PacketIndexes
  BY <1>3, SizesAreNumbers DEF PacketIndexes
<1>5. \A p : (\E i \in 0 .. k - 1 : p = Advance(PacketSlots, pr.begin, i))
               <=> p \in Elements(PacketSlots, pr.begin, k)
  BY DEF Elements
<1> QED
  BY <1>2, <1>4, <1>5

LEMMA Furthest ==
  ASSUME TypeInv, NEW U \in SUBSET PacketIndexes, U # {}
  PROVE  \E last \in U : \A q \in U :
           Count(PacketSlots, pr.begin, q) <= Count(PacketSlots, pr.begin, last)
<1> DEFINE Ahead(q) == Count(PacketSlots, pr.begin, q)
           Left(q) == PacketSlots - Ahead(q)
           N == {Left(q) : q \in U}
<1>1. \A q \in U : Ahead(q) \in 0 .. PacketSlots - 1
  BY Rings, SizesAreNumbers, CountIs DEF PacketIndexes
<1> HIDE DEF Ahead
<1>2. N \subseteq Nat /\ N # {}
  BY <1>1, SizesAreNumbers
<1>3. PICK m \in N : \A n \in N : m <= n
  BY <1>2, Least, ZenonT(40)
<1>4. PICK last \in U : m = Left(last)
  OBVIOUS
<1>5. \A q \in U : Left(last) <= Left(q)
  BY <1>3, <1>4
<1>6. \A q \in U : Ahead(q) <= Ahead(last)
  BY <1>1, <1>5, SizesAreNumbers
<1> QED
  BY <1>6 DEF Ahead

LEMMA ReturnIs ==
  ASSUME TypeInv, NEW k \in 0 .. PacketSlots, Return(k)
  PROVE  /\ k <= Count(PacketSlots, pr.begin, pr.end) /\ k \in PacketIndexes
         /\ pr' = [pr EXCEPT !.begin = Advance(PacketSlots, pr.begin, k)]
         /\ pr' \in [next : PacketIndexes, begin : PacketIndexes, end : PacketIndexes]
         /\ pr'.next = pr.next /\ pr'.end = pr.end
         /\ pr'.begin = Advance(PacketSlots, pr.begin, k)
         /\ fr'.end = fr.end
         /\ fr' \in [begin : FragmentIndexes, end : FragmentIndexes]
         /\ \/ fr'.begin = fr.begin /\ \A p \in Returned(k) : packets[p].count = 0
            \/ \E last \in Returned(k) :
                 /\ packets[last].count > 0
                 /\ fr'.begin = Advance(FragmentSlots, packets[last].index, packets[last].count)
                 /\ \A q \in Returned(k) : packets[q].count > 0 =>
                      Count(PacketSlots, pr.begin, q) <= Count(PacketSlots, pr.begin, last)
         /\ fragments' \in [FragmentIndexes -> Extents \cup Buffers \cup {Nothing}]
         /\ \A f \in FragmentIndexes :
              (\A p \in Returned(k) : f \notin FragmentsOf(p)) => fragments'[f] = fragments[f]
<1> DEFINE done == Elements(PacketSlots, pr.begin, k)
           used == {p \in done : packets[p].count > 0}
           last == CHOOSE p \in used : \A q \in used :
                     Count(PacketSlots, pr.begin, q) <= Count(PacketSlots, pr.begin, p)
<1>1. /\ k <= Count(PacketSlots, pr.begin, pr.end)
      /\ fr' = IF used = {} THEN fr
               ELSE [fr EXCEPT !.begin =
                       Advance(FragmentSlots, packets[last].index, packets[last].count)]
      /\ fragments' = [f \in DOMAIN fragments |->
                     IF \E i \in 0 .. k - 1 : f \in FragmentsOf(Advance(PacketSlots, pr.begin, i))
                     THEN Nothing ELSE fragments[f]]
      /\ pr' = [pr EXCEPT !.begin = Advance(PacketSlots, pr.begin, k)]
  <2>1. Count(PacketSlots, pr.begin, pr.end) \in 0 .. PacketSlots - 1
    BY Rings, SizesAreNumbers, CountIs DEF PacketIndexes
  <2> QED
    BY <2>1 DEF Return
<1>2. done = Returned(k) /\ k \in PacketIndexes
  BY <1>1, ReturnedAre
<1> HIDE DEF done
<1>3. /\ pr' \in [next : PacketIndexes, begin : PacketIndexes, end : PacketIndexes]
      /\ pr'.next = pr.next /\ pr'.end = pr.end
      /\ pr'.begin = Advance(PacketSlots, pr.begin, k)
  <2>1. Advance(PacketSlots, pr.begin, k) \in PacketIndexes
    BY Rings, SizesAreNumbers, AdvanceIs DEF PacketIndexes
  <2> QED
    BY <1>1, <2>1 DEF TypeInv
<1>4. /\ fr'.end = fr.end /\ fr' \in [begin : FragmentIndexes, end : FragmentIndexes]
      /\ \/ fr'.begin = fr.begin /\ \A p \in Returned(k) : packets[p].count = 0
         \/ \E l \in Returned(k) :
                 /\ packets[l].count > 0
                 /\ fr'.begin = Advance(FragmentSlots, packets[l].index, packets[l].count)
                 /\ \A q \in Returned(k) : packets[q].count > 0 =>
                      Count(PacketSlots, pr.begin, q) <= Count(PacketSlots, pr.begin, l)
  <2>0. /\ fr \in [begin : FragmentIndexes, end : FragmentIndexes]
        /\ \A p \in PacketIndexes : packets[p].count \in Nat /\ packets[p].count < FragmentSlots
                                    /\ packets[p].index \in FragmentIndexes
    <3>1. fr \in [begin : FragmentIndexes, end : FragmentIndexes]
      BY DEF TypeInv
    <3>2. ASSUME NEW p \in PacketIndexes
          PROVE  packets[p].count \in FragmentIndexes /\ packets[p].index \in FragmentIndexes
      BY Rings, PacketFields
    <3>3. \A c \in FragmentIndexes : c \in Nat /\ c < FragmentSlots
      BY SizesAreNumbers DEF FragmentIndexes
    <3> QED
      BY <3>1, <3>2, <3>3
  <2>1. CASE used = {}
    <3>1. fr' = fr
      BY <1>1, <2>1
    <3>2. \A p \in Returned(k) : ~(packets[p].count > 0)
      BY <1>2, <2>1
    <3>3. \A p \in Returned(k) : packets[p].count = 0
      BY <2>0, <3>2 DEF Returned
    <3> QED
      BY <2>0, <3>1, <3>3
  <2>2. CASE used # {}
    <3>1. used \in SUBSET PacketIndexes
      BY <1>2 DEF Returned
    <3>2. /\ last \in used
          /\ \A q \in used :
               Count(PacketSlots, pr.begin, q) <= Count(PacketSlots, pr.begin, last)
      <4> HIDE DEF used
      <4>1. \E l \in used : \A q \in used :
              Count(PacketSlots, pr.begin, q) <= Count(PacketSlots, pr.begin, l)
        BY <2>2, <3>1, Furthest
      <4> QED
        BY <4>1
    <3> HIDE DEF last
    <3>3. last \in Returned(k) /\ last \in PacketIndexes /\ packets[last].count > 0
      BY <1>2, <3>1, <3>2
    <3>4. \A q \in Returned(k) : packets[q].count > 0 =>
            Count(PacketSlots, pr.begin, q) <= Count(PacketSlots, pr.begin, last)
      BY <1>2, <3>2
    <3>5. packets[last].count \in 0 .. FragmentSlots /\ packets[last].index \in 0 .. FragmentSlots - 1
      BY <2>0, <3>3, SizesAreNumbers DEF FragmentIndexes
    <3>6. Advance(FragmentSlots, packets[last].index, packets[last].count) \in FragmentIndexes
      BY <3>5, SizesAreNumbers, AdvanceIs DEF FragmentIndexes
    <3> DEFINE b == Advance(FragmentSlots, packets[last].index, packets[last].count)
    <3>7. fr' = [fr EXCEPT !.begin = b]
      BY <1>1, <2>2
    <3> HIDE DEF b, used
    <3>8. b \in FragmentIndexes
      BY <3>6 DEF b
    <3>9. fr' \in [begin : FragmentIndexes, end : FragmentIndexes] /\ fr'.end = fr.end /\ fr'.begin = b
      BY <2>0, <3>7, <3>8
    <3> QED
      BY <3>3, <3>4, <3>9 DEF b
  <2> QED
    BY <2>1, <2>2
<1>5. /\ fragments' \in [FragmentIndexes -> Extents \cup Buffers \cup {Nothing}]
      /\ \A f \in FragmentIndexes :
           (\A p \in Returned(k) : f \notin FragmentsOf(p)) => fragments'[f] = fragments[f]
  <2>1. fragments \in [FragmentIndexes -> Extents \cup Buffers \cup {Nothing}]
    BY DEF TypeInv
  <2> DEFINE gone(f) == \E i \in 0 .. k - 1 : f \in FragmentsOf(Advance(PacketSlots, pr.begin, i))
  <2>2. fragments' = [f \in FragmentIndexes |-> IF gone(f) THEN Nothing ELSE fragments[f]]
    BY <1>1, <2>1
  <2>3. ASSUME NEW i \in 0 .. k - 1 PROVE Advance(PacketSlots, pr.begin, i) \in Returned(k)
    BY <1>2 DEF done, Elements
  <2>4. ASSUME NEW f, \A p \in Returned(k) : f \notin FragmentsOf(p) PROVE ~gone(f)
    BY <2>3, <2>4
  <2> HIDE DEF gone
  <2> QED
    BY <2>1, <2>2, <2>4
<1> QED
  BY <1>1, <1>2, <1>3, <1>4, <1>5

-----------------------------------------------------------------------------
(* Types.                                                                   *)

LEMMA TypeInit == ASSUME Init PROVE TypeInv
<1>1. 0 \in PacketIndexes /\ 0 \in FragmentIndexes /\ EmptyPacket \in Packet
  BY SizesAreNumbers, EmptyPacketIs DEF PacketIndexes, FragmentIndexes
<1>2. IsFiniteSet({})
  BY FS_EmptySet
<1>3. <<>> \in Seq(Sendable)
  OBVIOUS
<1> QED
  BY <1>1, <1>2, <1>3 DEF Init, TypeInv, PacketIndexes, FragmentIndexes

LEMMA SendTypes == ASSUME TypeInv, NEW n \in Nbls, Send(n) PROVE TypeInv'
  BY DEF TypeInv, Send, polling, rings, pool, chain

LEMMA QueueTypes ==
  ASSUME TypeInv, NEW n \in Nbls, QueueNetBufferList(n) PROVE TypeInv'
<1>1. Append(queue, Original(n)) \in Seq(Sendable)
  BY Originals, AppendProperties DEF TypeInv
<1> QED
  BY <1>1 DEF TypeInv, QueueNetBufferList, rings, pool, chain

LEMMA LifeTypes ==
  ASSUME TypeInv, Start \/ Stop \/ NicNotifies
  PROVE  TypeInv'
<1>1. 0 \in PacketIndexes /\ 0 \in FragmentIndexes
  BY SizesAreNumbers DEF PacketIndexes, FragmentIndexes
<1>2. CASE Start
  BY <1>1, <1>2 DEF TypeInv, Start, pool, chain, owners
<1>3. CASE Stop
  BY <1>3 DEF TypeInv, Stop, polling, rings, pool, chain, owners
<1>4. CASE NicNotifies
  BY <1>4 DEF TypeInv, NicNotifies, rings, pool, chain, owners
<1> QED
  BY <1>2, <1>3, <1>4

LEMMA CancelTypes == ASSUME TypeInv, Cancel PROVE TypeInv'
<1>1. PICK k \in 0 .. PacketSlots : Return(k)
  BY DEF Cancel
<1>2. /\ pr' \in [next : PacketIndexes, begin : PacketIndexes, end : PacketIndexes]
      /\ fr' \in [begin : FragmentIndexes, end : FragmentIndexes]
      /\ fragments' \in [FragmentIndexes -> Extents \cup Buffers \cup {Nothing}]
  BY <1>1, ReturnIs
<1> QED
  BY <1>2 DEF TypeInv, Cancel, pool, chain, owners

LEMMA YieldTypes == ASSUME TypeInv, YieldToNetAdapter PROVE TypeInv'
<1>1. PICK k \in 0 .. PacketSlots : Return(k)
  BY DEF YieldToNetAdapter
<1>2. /\ pr' \in [next : PacketIndexes, begin : PacketIndexes, end : PacketIndexes]
      /\ fr' \in [begin : FragmentIndexes, end : FragmentIndexes]
      /\ fragments' \in [FragmentIndexes -> Extents \cup Buffers \cup {Nothing}]
  BY <1>1, ReturnIs
<1> QED
  BY <1>2 DEF TypeInv, YieldToNetAdapter, pool, chain, owners

LEMMA PollTypes ==
  ASSUME TypeInv, TransmitNbls \/ EndPoll PROVE TypeInv'
<1>1. IsFiniteSet({})
  BY FS_EmptySet
<1>2. CASE TransmitNbls
  BY <1>2 DEF TypeInv, TransmitNbls, rings, pool, owners
<1>3. CASE EndPoll
  BY <1>1, <1>3 DEF TypeInv, EndPoll, rings, pool, chain
<1> QED
  BY <1>2, <1>3

LEMMA StoppingTypes == ASSUME TypeInv, TransmitNblsStopping PROVE TypeInv'
<1>1. /\ mapping' = mapping /\ life' = life /\ pc' \in {"idle", "yield", "drain"}
      /\ produced' = produced /\ completedChain' = completedChain /\ sending' = sending
      /\ UNCHANGED <<rings, pool, sgl, clones>>
      /\ awake' \in BOOLEAN /\ completed' \in BOOLEAN /\ readyToStop' \in BOOLEAN
  BY DEF TypeInv, TransmitNblsStopping
<1>2. \/ UNCHANGED <<queue, chain, atOs, strayClones>>
      \/ /\ SendNetBufferListsComplete(
               {currentNbl[i] : i \in DOMAIN currentNbl} \cup {queue[i] : i \in DOMAIN queue})
         /\ queue' = <<>> /\ currentNbl' = <<>> /\ currentNb' = 0
  BY DEF TransmitNblsStopping
<1>3. /\ queue' \in Seq(Sendable) /\ currentNbl' \in Seq(Sendable) /\ currentNb' \in Nat
      /\ atOs' \in SUBSET Nbls /\ strayClones' \in SUBSET Nbls
  <2>1. CASE UNCHANGED <<queue, chain, atOs, strayClones>>
    BY <2>1 DEF TypeInv, chain
  <2>2. CASE SendNetBufferListsComplete(
               {currentNbl[i] : i \in DOMAIN currentNbl} \cup {queue[i] : i \in DOMAIN queue})
             /\ queue' = <<>> /\ currentNbl' = <<>> /\ currentNb' = 0
    <3> DEFINE items == {currentNbl[i] : i \in DOMAIN currentNbl} \cup {queue[i] : i \in DOMAIN queue}
    <3>1. \A item \in items : item \in Items
      BY ElementOfSeq, LenProperties DEF TypeInv, Sendable
    <3>2. SendNetBufferListsComplete(items)
      BY <2>2
    <3> HIDE DEF items
    <3>3. \A item \in items : item.nbl \in Nbls
      BY <3>1, ItemIs
    <3>4. atOs' \in SUBSET Nbls /\ strayClones' \in SUBSET Nbls
      BY <3>2, <3>3 DEF TypeInv, SendNetBufferListsComplete
    <3> QED
      BY <2>2, <3>4
  <2> QED
    BY <1>2, <2>1, <2>2
<1> QED
  BY <1>1, <1>3 DEF TypeInv, rings, pool

LEMMA SegmentTypes == ASSUME TypeInv, ChainInv, SegmentNetBufferList PROVE TypeInv'
<1>1. currentNbl # <<>>
  BY DEF SegmentNetBufferList, Translating
<1>2. /\ CurrentNbl.nbl \in Nbls /\ Segments[CurrentNbl.nbl] # <<>>
      /\ Tail(currentNbl) \in Seq(Sendable)
  BY <1>1, Current DEF SegmentNetBufferList, IsSoftwareGsoRequired
<1>3. Clone(CurrentNbl.nbl) \in Sendable
  BY <1>2, Originals
<1>4. <<Clone(CurrentNbl.nbl)>> \o Tail(currentNbl) \in Seq(Sendable)
  <2> DEFINE c == Clone(CurrentNbl.nbl)
             t == Tail(currentNbl)
  <2>1. c \in Sendable /\ t \in Seq(Sendable)
    BY <1>2, <1>3
  <2> HIDE DEF c, t
  <2>2. <<c>> \o t \in Seq(Sendable)
    BY <2>1, ConcatProperties
  <2> QED
    BY <2>2 DEF c, t
<1> QED
  BY <1>2, <1>4 DEF TypeInv, SegmentNetBufferList, polling, rings, pool, owners

\* The pieces of the translation do what PutPacket does, with so many fragments.
LEMMA PutCounts ==
  ASSUME TypeInv, ChainInv
  PROVE  /\ MapNetBuffer => /\ currentNbl # <<>> /\ CurrentKind.fragments \in FragmentIndexes
                            /\ CurrentKind.fragments # 0
                            /\ CurrentKind.fragments <= AvailableFragments
         /\ BounceNetBuffer => /\ currentNbl # <<>> /\ 1 \in FragmentIndexes
                               /\ 1 <= AvailableFragments
         /\ IgnoreNetBuffer => currentNbl # <<>> /\ 0 \in FragmentIndexes /\ 0 <= AvailableFragments
<1>1. AvailableFragments \in FragmentIndexes /\ FragmentIndexes = 0 .. FragmentSlots - 1
  BY AvailableIs DEF FragmentIndexes
<1>2. CASE currentNbl # <<>>
  <2>1. CurrentKind \in Kinds
    BY <1>2, Current
  <2>2. "Success" \in TranslationResults(CurrentKind) =>
          CurrentKind.fragments \in Nat \ {0} /\ CurrentKind.fragments <= AvailableFragments
    BY <2>1, FragmentsFit
  <2>3. MapNetBuffer => "Success" \in TranslationResults(CurrentKind)
    BY DEF MapNetBuffer
  <2>4. BounceNetBuffer => AvailableFragments > 0
    BY DEF BounceNetBuffer
  <2>5. IgnoreNetBuffer => 0 \in FragmentIndexes /\ 0 <= AvailableFragments
    BY <1>1, SizesAreNumbers
  <2>6. \A k \in Nat : k <= AvailableFragments => k \in FragmentIndexes
    BY <1>1, SizesAreNumbers
  <2>7. BounceNetBuffer => 1 \in FragmentIndexes /\ 1 <= AvailableFragments
    BY <1>1, <2>4, SizesAreNumbers
  <2>8. MapNetBuffer => /\ CurrentKind.fragments \in FragmentIndexes /\ CurrentKind.fragments # 0
                        /\ CurrentKind.fragments <= AvailableFragments
    BY <2>2, <2>3, <2>6
  <2> QED
    BY <1>2, <2>5, <2>7, <2>8
<1>3. CASE currentNbl = <<>>
  BY <1>3 DEF MapNetBuffer, BounceNetBuffer, IgnoreNetBuffer, TranslatingBuffers, Translating
<1>4. 0 \in FragmentIndexes /\ 0 <= AvailableFragments
  BY <1>1, SizesAreNumbers
<1> QED
  BY <1>2, <1>3, <1>4

LEMMA PutTypes ==
  ASSUME TypeInv, ChainInv, MapNetBuffer \/ BounceNetBuffer \/ IgnoreNetBuffer
  PROVE  TypeInv'
<1>1. CASE MapNetBuffer
  <2> DEFINE k == CurrentKind.fragments
             nb == Bytes(CurrentNbl, CurrentNetBuffer)
  <2>1. currentNbl # <<>> /\ k \in FragmentIndexes
    BY <1>1, PutCounts
  <2>2. nb \in Extents
    BY <2>1, Current
  <2>3. PutPacket(FALSE, k)
    BY <1>1 DEF MapNetBuffer
  <2>4. /\ packets' \in [PacketIndexes -> Packet]
        /\ currentNbl' \in Seq(Sendable) /\ currentNb' \in Nat
        /\ pr' \in [next : PacketIndexes, begin : PacketIndexes, end : PacketIndexes]
        /\ fr' \in [begin : FragmentIndexes, end : FragmentIndexes]
        /\ produced'
    <3> HIDE DEF k
    <3> QED
      BY <2>1, <2>3, PacketPut
  <2>5. produced' \in BOOLEAN
    BY <2>3 DEF PutPacket
  <2>6. /\ fragments' = [f \in DOMAIN fragments |->
                          IF f \in Elements(FragmentSlots, fr.end, k) THEN nb ELSE fragments[f]]
        /\ sgl' = IF mapping = "UseHal" THEN sgl \cup {pr.end} ELSE sgl
        /\ UNCHANGED <<mapping, life, readyToStop, pc, awake, completed, completedChain, queue,
                       fragmentContext, free, content, over, lost, atOs, sending, strayClones, clones>>
    BY <1>1 DEF MapNetBuffer, pool, owners
  <2> HIDE DEF k, nb
  <2>7. fragments' \in [FragmentIndexes -> Extents \cup Buffers \cup {Nothing}]
    BY <2>2, <2>6 DEF TypeInv
  <2>8. sgl' \in SUBSET PacketIndexes
    BY <2>6 DEF TypeInv
  <2> QED
    BY <2>4, <2>5, <2>6, <2>7, <2>8 DEF TypeInv
<1>2. CASE BounceNetBuffer
  <2> DEFINE b == CHOOSE b \in free : TRUE
             nb == Bytes(CurrentNbl, CurrentNetBuffer)
  <2>1. currentNbl # <<>> /\ 1 \in FragmentIndexes
    BY <1>2, PutCounts
  <2>2. nb \in Extents
    BY <2>1, Current
  <2>3. PutPacket(FALSE, 1) /\ free # {}
    BY <1>2 DEF BounceNetBuffer
  <2>4. /\ packets' \in [PacketIndexes -> Packet]
        /\ currentNbl' \in Seq(Sendable) /\ currentNb' \in Nat
        /\ pr' \in [next : PacketIndexes, begin : PacketIndexes, end : PacketIndexes]
        /\ fr' \in [begin : FragmentIndexes, end : FragmentIndexes]
    BY <2>1, <2>3, PacketPut
  <2>5. produced' \in BOOLEAN
    BY <2>3 DEF PutPacket
  <2>6. b \in free /\ b \in Buffers
    BY <2>3 DEF TypeInv
  <2>7. /\ free' = free \ {b} /\ content' = [content EXCEPT ![b] = nb]
        /\ fragments' = [fragments EXCEPT ![fr.end] = b]
        /\ fragmentContext' = [fragmentContext EXCEPT ![fr.end] = b]
        /\ UNCHANGED <<mapping, life, readyToStop, pc, awake, completed, completedChain, queue,
                       atOs, sending, strayClones, sgl, clones>>
    BY <1>2 DEF BounceNetBuffer, owners
  <2>9. over' \in SUBSET PacketIndexes /\ lost' \in SUBSET Buffers
    <3>1. /\ over' \in {over, over \cup {pr.end}}
          /\ lost' = lost \cup ({fragmentContext[fr.end]} \ {Nothing})
      BY <1>2 DEF BounceNetBuffer
    <3>2. pr.end \in PacketIndexes /\ fragmentContext[fr.end] \in Buffers \cup {Nothing}
      BY DEF TypeInv
    <3> QED
      BY <3>1, <3>2 DEF TypeInv
  <2> HIDE DEF b, nb
  <2>8. /\ free' \in SUBSET Buffers /\ content' \in [Buffers -> Extents \cup {Nothing}]
        /\ fragments' \in [FragmentIndexes -> Extents \cup Buffers \cup {Nothing}]
        /\ fragmentContext' \in [FragmentIndexes -> Buffers \cup {Nothing}]
    BY <2>2, <2>6, <2>7 DEF TypeInv
  <2> QED
    BY <2>4, <2>5, <2>7, <2>8, <2>9 DEF TypeInv
<1>3. CASE IgnoreNetBuffer
  <2>1. currentNbl # <<>> /\ 0 \in FragmentIndexes
    BY <1>3, PutCounts
  <2>2. PutPacket(TRUE, 0)
    BY <1>3 DEF IgnoreNetBuffer
  <2>3. /\ packets' \in [PacketIndexes -> Packet]
        /\ currentNbl' \in Seq(Sendable) /\ currentNb' \in Nat
        /\ pr' \in [next : PacketIndexes, begin : PacketIndexes, end : PacketIndexes]
        /\ fr' \in [begin : FragmentIndexes, end : FragmentIndexes]
    BY <2>1, <2>2, PacketPut
  <2>4. produced' \in BOOLEAN
    BY <2>2 DEF PutPacket
  <2>5. UNCHANGED <<mapping, life, readyToStop, pc, awake, completed, completedChain, queue, fragments,
                    fragmentContext, free, content, over, lost, atOs, sending, strayClones, sgl,
                    clones>>
    BY <1>3 DEF IgnoreNetBuffer, pool, owners
  <2> QED
    BY <2>3, <2>4, <2>5 DEF TypeInv
<1> QED
  BY <1>1, <1>2, <1>3

LEMMA StopTranslatingTypes ==
  ASSUME TypeInv, ChainInv, StopTranslating
  PROVE  /\ TypeInv'
         /\ \/ currentNb' = currentNb
            \/ currentNbl # <<>> /\ currentNb' = CurrentNetBuffer
<1>1. \/ currentNb' = currentNb
      \/ currentNbl # <<>> /\ currentNb' = CurrentNetBuffer
  BY DEF StopTranslating, TranslatingBuffers, Translating
<1>2. CurrentNetBuffer \in Nat
  BY DEF CurrentNetBuffer, TypeInv
<1>3. /\ pc' = "yield" /\ currentNb' \in Nat
      /\ UNCHANGED <<mapping, life, readyToStop, awake, produced, completed, completedChain, queue,
                     rings, pool, currentNbl, owners, sgl, clones>>
  BY <1>1, <1>2 DEF StopTranslating, TypeInv
<1>4. TypeInv'
  BY <1>3 DEF TypeInv, rings, pool, owners
<1> QED
  BY <1>1, <1>4

\* What CompletePacket does to the ring and the chain.
LEMMA PacketCompleted ==
  ASSUME TypeInv, CompletePacket
  PROVE  /\ pc = "drain" /\ pr.next # pr.begin /\ Cardinality(completedChain) < Batch
         /\ sgl' = sgl \ {pr.next}
         /\ packets' = [packets EXCEPT ![pr.next] = EmptyPacket]
         /\ packets' \in [PacketIndexes -> Packet]
         /\ pr' = [pr EXCEPT !.next = Advance(PacketSlots, pr.next, 1)]
         /\ pr' \in [next : PacketIndexes, begin : PacketIndexes, end : PacketIndexes]
         /\ IF packets[pr.next].complete = Nothing
            THEN UNCHANGED <<completedChain, clones>>
            ELSE /\ packets[pr.next].complete \in Items
                 /\ completedChain' = completedChain \cup {packets[pr.next].complete.nbl}
                 /\ clones' = IF packets[pr.next].complete.clone
                              THEN clones \ {packets[pr.next].complete.nbl} ELSE clones
         /\ IsFiniteSet(completedChain') /\ completedChain' \in SUBSET Nbls
         /\ clones' \in SUBSET Nbls
         /\ UNCHANGED <<mapping, life, readyToStop, pc, awake, produced, queue, fr, fragments,
                        currentNbl, currentNb, atOs, sending, strayClones>>
         /\ over' = over \ {pr.next} /\ lost' = lost
<1>1. /\ pc = "drain" /\ pr.next # pr.begin /\ Cardinality(completedChain) < Batch
      /\ sgl' = sgl \ {pr.next}
      /\ packets' = [packets EXCEPT ![pr.next] = EmptyPacket]
      /\ pr' = [pr EXCEPT !.next = Advance(PacketSlots, pr.next, 1)]
      /\ UNCHANGED <<mapping, life, readyToStop, pc, awake, produced, queue, fr, fragments,
                     currentNbl, currentNb, atOs, sending, strayClones>>
      /\ over' = over \ {pr.next} /\ lost' = lost
  BY DEF CompletePacket, AnyReturnedPackets, chain, owners
<1> DEFINE complete == packets[pr.next].complete
<1>2. IF complete = Nothing
      THEN UNCHANGED <<completedChain, clones>>
      ELSE /\ completedChain' = completedChain \cup {complete.nbl}
           /\ clones' = IF complete.clone THEN clones \ {complete.nbl} ELSE clones
  BY DEF CompletePacket
<1>3. complete \in Items \cup {Nothing}
  BY Rings, PacketFields
<1>4. packets' \in [PacketIndexes -> Packet]
  BY <1>1, EmptyPacketIs DEF TypeInv
<1>5. Advance(PacketSlots, pr.next, 1) \in PacketIndexes
  <2>1. 1 \in 0 .. PacketSlots
    BY SizesAreNumbers
  <2> QED
    BY <2>1, Rings, SizesAreNumbers, AdvanceIs DEF PacketIndexes
<1>6. pr' \in [next : PacketIndexes, begin : PacketIndexes, end : PacketIndexes]
  BY <1>1, <1>5 DEF TypeInv
<1> HIDE DEF complete
<1>7. IsFiniteSet(completedChain') /\ completedChain' \in SUBSET Nbls /\ clones' \in SUBSET Nbls
  <2>1. CASE complete = Nothing
    BY <1>2, <2>1 DEF TypeInv
  <2>2. CASE complete # Nothing
    <3>1. complete.nbl \in Nbls
      BY <1>3, <2>2, ItemIs
    <3>2. IsFiniteSet(completedChain \cup {complete.nbl})
      BY FS_AddElement DEF TypeInv
    <3> QED
      BY <1>2, <2>2, <3>1, <3>2 DEF TypeInv
  <2> QED
    BY <2>1, <2>2
<1> QED
  BY <1>1, <1>2, <1>3, <1>4, <1>6, <1>7 DEF complete

LEMMA CompleteTypes == ASSUME TypeInv, CompletePacket PROVE TypeInv'
<1> DEFINE p == pr.next
           bounced == IF packets[p].ignore THEN {}
                      ELSE {f \in FragmentsOf(p) : fragmentContext[f] # Nothing}
<1>1. /\ free' = free \cup {fragmentContext[f] : f \in bounced}
      /\ content' = [b \in Buffers |-> IF b \in free' THEN Nothing ELSE content[b]]
      /\ fragmentContext' = [f \in DOMAIN fragmentContext |->
                                  IF f \in bounced THEN Nothing ELSE fragmentContext[f]]
      /\ completed' = TRUE
  BY DEF CompletePacket
<1>2. \A f \in bounced : f \in FragmentIndexes /\ fragmentContext[f] # Nothing
  <2>1. packets[p].index \in FragmentIndexes /\ packets[p].count \in FragmentIndexes
    BY Rings, PacketFields
  <2>2. packets[p].count \in 0 .. FragmentSlots /\ packets[p].index \in 0 .. FragmentSlots - 1
    BY <2>1, SizesAreNumbers DEF FragmentIndexes
  <2>3. FragmentsOf(p) \subseteq FragmentIndexes
    BY <2>2, SizesAreNumbers, ElementsAre DEF FragmentsOf, FragmentIndexes
  <2> QED
    BY <2>3
<1> HIDE DEF bounced, p
<1>3. free' \in SUBSET Buffers
  BY <1>1, <1>2 DEF TypeInv
<1>4. content' \in [Buffers -> Extents \cup {Nothing}]
  BY <1>1 DEF TypeInv
<1>5. fragmentContext' \in [FragmentIndexes -> Buffers \cup {Nothing}]
  BY <1>1 DEF TypeInv
<1>6. /\ packets' \in [PacketIndexes -> Packet] /\ sgl' \in SUBSET PacketIndexes
      /\ pr' \in [next : PacketIndexes, begin : PacketIndexes, end : PacketIndexes]
      /\ IsFiniteSet(completedChain') /\ completedChain' \in SUBSET Nbls
      /\ clones' \in SUBSET Nbls /\ over' \in SUBSET PacketIndexes /\ lost' \in SUBSET Buffers
      /\ UNCHANGED <<mapping, life, readyToStop, pc, awake, produced, queue, fr, fragments,
                     currentNbl, currentNb, atOs, sending, strayClones>>
  BY PacketCompleted DEF TypeInv
<1> QED
  BY <1>1, <1>3, <1>4, <1>5, <1>6 DEF TypeInv

LEMMA TypeStep == ASSUME TypeInv, ChainInv, [Next]_vars PROVE TypeInv'
<1>1. CASE UNCHANGED vars
  BY <1>1 DEF TypeInv, vars, polling, rings, pool, chain, owners
<1> QED
  BY <1>1, SendTypes, QueueTypes, LifeTypes, CancelTypes, PollTypes, StoppingTypes, SegmentTypes,
     PutTypes, StopTranslatingTypes, YieldTypes, CompleteTypes DEF Next, Poll

-----------------------------------------------------------------------------
(* The current chain.                                                       *)

LEMMA ChainInit == ASSUME Init PROVE ChainInv
  BY DEF Init, ChainInv

LEMMA ChainStep == ASSUME TypeInv, ChainInv, [Next]_vars PROVE ChainInv'
<1>1. CASE UNCHANGED <<queue, currentNbl, currentNb>>
  BY <1>1 DEF ChainInv
<1>2. CASE \E n \in Nbls : QueueNetBufferList(n)
  <2>1. PICK n \in Nbls : QueueNetBufferList(n)
    BY <1>2
  <2>2. /\ queue' = Append(queue, Original(n)) /\ UNCHANGED <<currentNbl, currentNb>>
    BY <2>1 DEF QueueNetBufferList, chain
  <2>3. /\ DOMAIN queue = 1 .. Len(queue) /\ Len(queue) \in Nat
        /\ DOMAIN queue' = 1 .. Len(queue) + 1
        /\ \A i \in 1 .. Len(queue) : queue'[i] = queue[i]
        /\ queue'[Len(queue) + 1] = Original(n)
    BY <2>2, Originals, AppendProperties, LenProperties DEF TypeInv
  <2>4. \A i \in DOMAIN queue' : ~queue'[i].clone
    BY <2>3, Originals DEF ChainInv
  <2> QED
    BY <2>2, <2>4 DEF ChainInv
<1>3. CASE TransmitNbls
  <2>1. currentNb' = currentNb /\ \/ UNCHANGED <<currentNbl, queue>>
                                  \/ currentNbl = <<>> /\ currentNbl' = queue /\ queue' = <<>>
    BY <1>3 DEF TransmitNbls
  <2> QED
    BY <2>1 DEF ChainInv
<1>4. CASE TransmitNblsStopping
  <2>1. \/ UNCHANGED <<queue, currentNbl, currentNb>>
        \/ queue' = <<>> /\ currentNbl' = <<>> /\ currentNb' = 0
    BY <1>4 DEF TransmitNblsStopping, chain
  <2> QED
    BY <1>1, <2>1 DEF ChainInv
<1>5. CASE SegmentNetBufferList
  <2>1. currentNbl # <<>> /\ Segments[CurrentNbl.nbl] # <<>> /\ queue' = queue /\ currentNb' = 1
    BY <1>5 DEF SegmentNetBufferList, Translating, IsSoftwareGsoRequired
  <2> DEFINE c == Clone(CurrentNbl.nbl)
             t == Tail(currentNbl)
  <2>2. currentNbl' = <<c>> \o t
    BY <1>5 DEF SegmentNetBufferList
  <2>3. c \in Sendable /\ t \in Seq(Sendable)
    BY <2>1, Current, Originals
  <2> HIDE DEF c, t
  <2>4. currentNbl' \in Seq(Sendable) /\ Len(currentNbl') = 1 + Len(t) /\ currentNbl'[1] = c
    BY <2>2, <2>3, ConcatProperties
  <2>5. currentNbl' # <<>> /\ Head(currentNbl') = c
    BY <2>3, <2>4, HeadTailProperties, LenProperties, EmptySeq
  <2>6. 1 \in DOMAIN NetBuffersOf(c)
    <3>1. c \in Items /\ NetBuffersOf(c) # <<>>
      BY <2>3 DEF Sendable
    <3>2. /\ NetBuffersOf(c) \in Seq(Kinds) /\ Len(NetBuffersOf(c)) \in Nat
          /\ DOMAIN NetBuffersOf(c) = 1 .. Len(NetBuffersOf(c))
      BY <3>1, KindsAre
    <3>3. Len(NetBuffersOf(c)) # 0
      BY <3>1, <3>2, EmptySeq
    <3> QED
      BY <3>2, <3>3
  <2> QED
    BY <2>1, <2>5, <2>6 DEF ChainInv
<1>6. ASSUME NEW ignore \in BOOLEAN, NEW count \in FragmentIndexes, PutPacket(ignore, count),
             currentNbl # <<>>, queue' = queue
      PROVE  ChainInv'
  <2>1. \/ currentNb' = 0
        \/ currentNbl' = currentNbl /\ currentNb' \in DOMAIN NetBuffersOf(CurrentNbl)
    BY <1>6, PacketPut
  <2> QED
    BY <1>6, <2>1 DEF ChainInv, CurrentNbl
<1>7. CASE MapNetBuffer \/ BounceNetBuffer \/ IgnoreNetBuffer
  <2>1. /\ currentNbl # <<>> /\ queue' = queue
        /\ \E ignore \in BOOLEAN : \E count \in FragmentIndexes : PutPacket(ignore, count)
    BY <1>7, PutCounts DEF MapNetBuffer, BounceNetBuffer, IgnoreNetBuffer
  <2> QED
    BY <1>6, <2>1
<1>8. CASE StopTranslating
  <2>1. \/ currentNb' = currentNb
        \/ currentNbl # <<>> /\ currentNb' = CurrentNetBuffer
    BY <1>8, StopTranslatingTypes
  <2>2. queue' = queue /\ currentNbl' = currentNbl
    BY <1>8 DEF StopTranslating
  <2>3. currentNbl # <<>> => CurrentNetBuffer \in DOMAIN NetBuffersOf(Head(currentNbl))
    BY Current, KindsAre DEF CurrentNbl
  <2> QED
    BY <1>1, <2>1, <2>2, <2>3 DEF ChainInv
<1>9. UNCHANGED vars \/ (\E n \in Nbls : Send(n)) \/ Start \/ Cancel \/ Stop \/ NicNotifies
        \/ YieldToNetAdapter \/ CompletePacket \/ EndPoll
      => UNCHANGED <<queue, currentNbl, currentNb>>
  BY DEF vars, Send, Start, Cancel, Stop, NicNotifies, YieldToNetAdapter, CompletePacket, EndPoll,
         chain
<1> QED
  BY <1>1, <1>2, <1>3, <1>4, <1>5, <1>7, <1>8, <1>9 DEF Next, Poll

-----------------------------------------------------------------------------
(* The packet ring.                                                         *)

\* The ring before and after a step that leaves it alone.
LEMMA RingSame ==
  ASSUME UNCHANGED <<pr, packets>>
  PROVE  /\ Back' = Back /\ Filled' = Filled /\ \A p \in PacketIndexes : Offset(p)' = Offset(p)
  BY DEF Back, Filled, Offset

\* A packet is put behind the last one.
LEMMA RingPut ==
  ASSUME TypeInv, ChainInv, RingInv, currentNbl # <<>>, ~PacketRingFull, NEW ignore \in BOOLEAN,
         NEW count \in FragmentIndexes, PutPacket(ignore, count)
  PROVE  /\ Back' = Back /\ Filled' = Filled + 1
         /\ \A p \in PacketIndexes : Offset(p)' = Offset(p)
         /\ Offset(pr.end) = Filled /\ pr.end \in PacketIndexes
         /\ \A p \in PacketIndexes : Offset(p) < Filled + 1 <=> Offset(p) < Filled \/ p = pr.end
         /\ \A p \in PacketIndexes : Offset(p) < Filled => p # pr.end
<1>1. /\ pr'.next = pr.next /\ pr'.begin = pr.begin /\ pr'.end = Advance(PacketSlots, pr.end, 1)
  BY PacketPut DEF TypeInv
<1>2. /\ pr.end \in 0 .. PacketSlots - 1 /\ pr.next \in 0 .. PacketSlots - 1
      /\ 1 \in 0 .. PacketSlots - 1 /\ PacketSlots \in Nat \ {0}
      /\ \A p \in PacketIndexes : Offset(p) \in 0 .. PacketSlots - 1
  BY Rings, SizesAreNumbers DEF PacketIndexes
<1>3. Back' = Back /\ \A p \in PacketIndexes : Offset(p)' = Offset(p)
  BY <1>1 DEF Offset, Back
<1>4. Filled' = Count(PacketSlots, pr.next, Advance(PacketSlots, pr.end, 1))
  BY <1>1 DEF Offset, Filled
<1>5. Filled' = IF Filled + 1 < PacketSlots THEN Filled + 1 ELSE Filled + 1 - PacketSlots
  BY <1>2, <1>4, CountToAdvanced DEF Filled, Offset
<1>6. Filled + 1 < PacketSlots
  <2>1. Filled \in 0 .. PacketSlots - 1
    BY <1>2 DEF Filled, PacketIndexes
  <2>2. ASSUME Filled + 1 = PacketSlots PROVE FALSE
    <3>1. Filled' = 0
      BY <1>2, <1>5, <2>1, <2>2
    <3> DEFINE e == Advance(PacketSlots, pr.end, 1)
    <3>2. e \in 0 .. PacketSlots - 1
      <4>1. 1 \in 0 .. PacketSlots
        BY <1>2
      <4> QED
        BY <1>2, <4>1, AdvanceIs
    <3>3. Count(PacketSlots, pr.next, e) = 0
      BY <1>4, <3>1
    <3> HIDE DEF e
    <3>4. e = pr.next
      BY <1>2, <3>2, <3>3, CountBetween
    <3> QED
      BY <3>4 DEF e, PacketRingFull
  <2> QED
    BY <1>2, <2>1, <2>2
<1>7. ASSUME NEW p \in PacketIndexes, Offset(p) = Filled PROVE p = pr.end
  <2>1. p \in 0 .. PacketSlots - 1
    BY DEF PacketIndexes
  <2>2. Count(PacketSlots, pr.next, p) = Count(PacketSlots, pr.next, pr.end)
    BY <1>7 DEF Offset, Filled
  <2> QED
    BY <1>2, <2>1, <2>2, CountBetween
<1>8. Offset(pr.end) = Filled /\ pr.end \in PacketIndexes
  BY <1>2 DEF Filled, PacketIndexes
<1>9. Filled \in Int /\ \A p \in PacketIndexes : Offset(p) \in Int
  BY <1>2, <1>8
<1> QED
  BY <1>2, <1>3, <1>5, <1>6, <1>7, <1>8, <1>9

\* The first packet is completed.
LEMMA RingCompleted ==
  ASSUME TypeInv, RingInv, CompletePacket
  PROVE  /\ Back' = Back - 1 /\ Filled' = Filled - 1 /\ Back > 0 /\ Filled > 0
         /\ \A p \in PacketIndexes \ {pr.next} : Offset(p) > 0 /\ Offset(p)' = Offset(p) - 1
         /\ \A p \in PacketIndexes : p = pr.next => Offset(p) = 0 /\ Offset(p)' = PacketSlots - 1
         /\ pr.next \in PacketIndexes
<1>1. /\ pr.begin # pr.next
      /\ pr'.begin = pr.begin /\ pr'.end = pr.end /\ pr'.next = Advance(PacketSlots, pr.next, 1)
  BY PacketCompleted DEF TypeInv
<1>2. /\ pr.end \in 0 .. PacketSlots - 1 /\ pr.next \in 0 .. PacketSlots - 1
      /\ pr.begin \in 0 .. PacketSlots - 1
      /\ 1 \in 0 .. PacketSlots - 1 /\ PacketSlots \in Nat \ {0}
      /\ \A p \in PacketIndexes : Offset(p) \in 0 .. PacketSlots - 1
  BY Rings, SizesAreNumbers DEF PacketIndexes
<1>3. \A p \in PacketIndexes :
        Offset(p)' = IF 1 <= Offset(p) THEN Offset(p) - 1 ELSE Offset(p) - 1 + PacketSlots
  BY <1>1, <1>2, CountFromAdvanced DEF Offset, PacketIndexes
<1>4. \A p \in PacketIndexes : Offset(p) = 0 <=> p = pr.next
  BY <1>2, CountBetween DEF Offset, PacketIndexes
<1>6. pr.begin \in PacketIndexes /\ pr.end \in PacketIndexes /\ pr.next \in PacketIndexes
  BY Rings
<1>7. Back > 0 /\ Filled > 0
  <2>1. Back \in Int /\ Filled \in Int /\ Back >= 0
    BY <1>2, <1>6 DEF Back, Filled
  <2>2. Back # 0
    BY <1>1, <1>4, <1>6 DEF Back
  <2> QED
    BY <2>1, <2>2 DEF RingInv
<1>8. Back' = Back - 1 /\ Filled' = Filled - 1
  <2>1. Back \in Int /\ Filled \in Int
    BY <1>2, <1>6 DEF Back, Filled
  <2>2. Back' = IF 1 <= Back THEN Back - 1 ELSE Back - 1 + PacketSlots
    <3>1. PICK b \in PacketIndexes : b = pr.begin
      BY <1>6
    <3>2. Back' = Offset(b)' /\ Back = Offset(b)
      BY <1>1, <3>1 DEF Back, Offset
    <3> QED
      BY <1>3, <3>2
  <2>3. Filled' = IF 1 <= Filled THEN Filled - 1 ELSE Filled - 1 + PacketSlots
    <3>1. PICK e \in PacketIndexes : e = pr.end
      BY <1>6
    <3>2. Filled' = Offset(e)' /\ Filled = Offset(e)
      BY <1>1, <3>1 DEF Filled, Offset
    <3> QED
      BY <1>3, <3>2
  <2> QED
    BY <1>7, <2>1, <2>2, <2>3
<1>9. \A p \in PacketIndexes \ {pr.next} : Offset(p) > 0 /\ Offset(p)' = Offset(p) - 1
  BY <1>2, <1>3, <1>4
<1>10. \A p \in PacketIndexes : p = pr.next => Offset(p) = 0 /\ Offset(p)' = PacketSlots - 1
  BY <1>2, <1>3, <1>4
<1> QED
  BY <1>6, <1>7, <1>8, <1>9, <1>10

\* The NIC gives packets back.
LEMMA RingReturned ==
  ASSUME TypeInv, RingInv, NEW k \in 0 .. PacketSlots, Return(k)
  PROVE  /\ Back' = Back + k /\ Filled' = Filled /\ Back + k <= Filled
         /\ \A p \in PacketIndexes : Offset(p)' = Offset(p)
         /\ \A p \in PacketIndexes : p \in Returned(k) <=> Back <= Offset(p) /\ Offset(p) < Back + k
         /\ k \in Nat
<1>1. /\ pr'.next = pr.next /\ pr'.end = pr.end /\ pr'.begin = Advance(PacketSlots, pr.begin, k)
      /\ k <= Count(PacketSlots, pr.begin, pr.end) /\ k \in PacketIndexes
  BY ReturnIs
<1>2. /\ pr.end \in 0 .. PacketSlots - 1 /\ pr.next \in 0 .. PacketSlots - 1
      /\ pr.begin \in 0 .. PacketSlots - 1
      /\ k \in 0 .. PacketSlots - 1 /\ PacketSlots \in Nat \ {0}
      /\ \A p \in PacketIndexes : Offset(p) \in 0 .. PacketSlots - 1
      /\ Back \in 0 .. PacketSlots - 1 /\ Filled \in 0 .. PacketSlots - 1
  BY <1>1, Rings, SizesAreNumbers DEF PacketIndexes
<1>3. Filled' = Filled /\ \A p \in PacketIndexes : Offset(p)' = Offset(p)
  BY <1>1 DEF Offset, Filled
<1>4. \A p \in PacketIndexes :
        Count(PacketSlots, pr.begin, p) = IF Back <= Offset(p) THEN Offset(p) - Back
                                          ELSE Offset(p) - Back + PacketSlots
  <2> SUFFICES ASSUME NEW p \in PacketIndexes
               PROVE  Count(PacketSlots, pr.begin, p)
                        = IF Back <= Offset(p) THEN Offset(p) - Back
                          ELSE Offset(p) - Back + PacketSlots
    OBVIOUS
  <2>1. p \in 0 .. PacketSlots - 1
    BY DEF PacketIndexes
  <2>2. Back <= Offset(p) => Count(PacketSlots, pr.begin, p) = Offset(p) - Back
    BY <1>2, <2>1, CountBetween DEF Back, Offset
  <2>3. Back > Offset(p) => Count(PacketSlots, pr.begin, p) = Offset(p) - Back + PacketSlots
    BY <1>2, <2>1, CountBetween DEF Back, Offset
  <2>4. Back \in Int /\ Offset(p) \in Int
    BY <1>2
  <2> QED
    BY <2>2, <2>3, <2>4
<1>5. Count(PacketSlots, pr.begin, pr.end) = Filled - Back
  BY <1>2, <1>4, Rings DEF RingInv, Filled
<1>6. Back + k <= Filled
  BY <1>1, <1>2, <1>5
<1>7. Back' = Count(PacketSlots, pr.next, Advance(PacketSlots, pr.begin, k))
  BY <1>1 DEF Back, Offset
<1>8. Back' = IF Back + k < PacketSlots THEN Back + k ELSE Back + k - PacketSlots
  BY <1>2, <1>7, CountToAdvanced DEF Back, Offset
<1>9. Back' = Back + k
  BY <1>2, <1>6, <1>8
<1>10. \A p \in PacketIndexes : p \in Returned(k) <=> Back <= Offset(p) /\ Offset(p) < Back + k
  <2> SUFFICES ASSUME NEW p \in PacketIndexes
               PROVE  p \in Returned(k) <=> Back <= Offset(p) /\ Offset(p) < Back + k
    OBVIOUS
  <2>1. p \in Returned(k) <=> Count(PacketSlots, pr.begin, p) < k
    BY DEF Returned
  <2> QED
    BY <1>2, <1>4, <1>6, <2>1
<1> QED
  BY <1>2, <1>3, <1>6, <1>9, <1>10

\* A NET_BUFFER becomes a packet, with fragments that there is room for.
LEMMA Puts ==
  ASSUME TypeInv, ChainInv, MapNetBuffer \/ BounceNetBuffer \/ IgnoreNetBuffer
  PROVE  /\ \E ignore \in BOOLEAN : \E count \in FragmentIndexes :
              /\ PutPacket(ignore, count) /\ count <= AvailableFragments
              /\ ignore <=> count = 0
         /\ currentNbl # <<>> /\ ~PacketRingFull /\ pc = "translate"
         /\ \A p : p \in sgl' => p \in sgl \/ p = pr.end
         /\ UNCHANGED <<mapping, life, readyToStop, pc, completedChain, queue, clones, atOs, sending,
                        strayClones>>
<1>1. \E ignore \in BOOLEAN : \E count \in FragmentIndexes :
        /\ PutPacket(ignore, count) /\ count <= AvailableFragments
        /\ ignore <=> count = 0
  <2>1. CASE MapNetBuffer
    <3> DEFINE count == CurrentKind.fragments
    <3>1. count \in FragmentIndexes /\ count # 0 /\ count <= AvailableFragments
      BY <2>1, PutCounts
    <3>2. PutPacket(FALSE, count)
      BY <2>1 DEF MapNetBuffer
    <3> HIDE DEF count
    <3> QED
      BY <3>1, <3>2
  <2>2. CASE BounceNetBuffer
    <3> DEFINE count == 1
    <3>1. count \in FragmentIndexes /\ count <= AvailableFragments /\ PutPacket(FALSE, count)
      BY <2>2, PutCounts DEF BounceNetBuffer
    <3>2. count # 0
      OBVIOUS
    <3> HIDE DEF count
    <3> QED
      BY <3>1, <3>2
  <2>3. CASE IgnoreNetBuffer
    <3>1. 0 \in FragmentIndexes /\ 0 <= AvailableFragments /\ PutPacket(TRUE, 0)
      BY <2>3, PutCounts DEF IgnoreNetBuffer
    <3> QED
      BY <3>1
  <2> QED
    BY <2>1, <2>2, <2>3
<1>2. Translating
  BY DEF MapNetBuffer, BounceNetBuffer, IgnoreNetBuffer, TranslatingBuffers
<1>3. \A p : p \in sgl' => p \in sgl \/ p = pr.end
  BY DEF MapNetBuffer, BounceNetBuffer, IgnoreNetBuffer
<1>4. UNCHANGED <<mapping, life, readyToStop, pc, completedChain, queue, clones, atOs, sending,
                  strayClones>>
  BY DEF MapNetBuffer, BounceNetBuffer, IgnoreNetBuffer, owners
<1> QED
  BY <1>1, <1>2, <1>3, <1>4 DEF Translating

LEMMA RingStarted ==
  ASSUME TypeInv, Start
  PROVE  Back' = 0 /\ Filled' = 0
<1>1. pr'.next = 0 /\ pr'.begin = 0 /\ pr'.end = 0
  BY DEF Start
<1>2. 0 \in 0 .. PacketSlots - 1
  BY SizesAreNumbers
<1>3. Count(PacketSlots, 0, 0) = 0
  BY <1>2, SizesAreNumbers, CountBetween
<1> QED
  BY <1>1, <1>3 DEF Back, Filled, Offset

\* The ring is empty when next, begin and end are the same.
LEMMA RingEmpty ==
  ASSUME TypeInv, ~AnyNicPackets, ~AnyReturnedPackets
  PROVE  Filled = 0
<1>1. pr.next = pr.end
  BY DEF AnyNicPackets, AnyReturnedPackets
<1>2. pr.end \in 0 .. PacketSlots - 1
  BY Rings DEF PacketIndexes
<1> QED
  BY <1>1, <1>2, SizesAreNumbers, CountBetween DEF Filled, Offset

LEMMA RingInit == ASSUME Init PROVE RingInv
<1>1. pr.next = 0 /\ pr.begin = 0 /\ pr.end = 0 /\ sgl = {} /\ TypeInv
  BY TypeInit DEF Init
<1>2. Back = 0 /\ Filled = 0
  <2>1. 0 \in 0 .. PacketSlots - 1
    BY SizesAreNumbers
  <2> QED
    BY <1>1, <2>1, SizesAreNumbers, CountBetween DEF Back, Filled, Offset
<1>3. \A p \in PacketIndexes : Offset(p) \in Nat /\ packets[p] = EmptyPacket
  <2>1. \A p \in PacketIndexes : Offset(p) \in Nat
    BY <1>1, Rings
  <2>2. \A p \in PacketIndexes : packets[p] = EmptyPacket
    BY DEF Init, PacketIndexes
  <2> QED
    BY <2>1, <2>2
<1> QED
  BY <1>1, <1>2, <1>3 DEF RingInv

LEMMA RingStep ==
  ASSUME TypeInv, ChainInv, RingInv, LifeInv, [Next]_vars
  PROVE  RingInv'
<1>r. /\ Back \in Nat /\ Filled \in Nat /\ \A p \in PacketIndexes : Offset(p) \in Nat
      /\ sgl \subseteq PacketIndexes
  BY Rings DEF TypeInv
<1>1. CASE UNCHANGED <<pr, packets, sgl>>
  <2>1. /\ Back' = Back /\ Filled' = Filled /\ \A p \in PacketIndexes : Offset(p)' = Offset(p)
        /\ packets' = packets /\ sgl' = sgl
    BY <1>1, RingSame
  <2> QED
    BY <1>r, <2>1 DEF RingInv
<1>2. CASE Start
  <2>1. life = "stopped" /\ packets' = packets /\ sgl' = sgl
    BY <1>2 DEF Start
  <2>2. Filled = 0
    BY <2>1 DEF LifeInv
  <2>3. /\ \A p \in PacketIndexes : packets[p] = EmptyPacket
        /\ sgl = {}
    BY <1>r, <2>2 DEF RingInv
  <2>4. TypeInv'
    BY <1>2, LifeTypes
  <2>5. \A p \in PacketIndexes : Offset(p)' \in Nat
    <3>1. pr'.next \in 0 .. PacketSlots - 1
      BY <1>2, SizesAreNumbers DEF Start
    <3>2. \A p \in 0 .. PacketSlots - 1 : Count(PacketSlots, pr'.next, p) \in 0 .. PacketSlots - 1
      BY <3>1, SizesAreNumbers, CountIs
    <3> QED
      BY <3>2 DEF Offset, PacketIndexes
  <2>6. Back' = 0 /\ Filled' = 0
    BY <1>2, RingStarted
  <2> QED
    BY <2>1, <2>3, <2>5, <2>6 DEF RingInv
<1>3. CASE Cancel \/ YieldToNetAdapter
  <2>1. PICK k \in 0 .. PacketSlots : Return(k)
    BY <1>3 DEF Cancel, YieldToNetAdapter
  <2>2. packets' = packets /\ sgl' = sgl
    BY <1>3 DEF Cancel, YieldToNetAdapter
  <2>3. /\ Back' = Back + k /\ Filled' = Filled /\ Back + k <= Filled
        /\ \A p \in PacketIndexes : Offset(p)' = Offset(p)
    BY <2>1, RingReturned
  <2> QED
    BY <1>r, <2>2, <2>3 DEF RingInv
<1>4. CASE MapNetBuffer \/ BounceNetBuffer \/ IgnoreNetBuffer
  <2>1. /\ currentNbl # <<>> /\ ~PacketRingFull
        /\ \A p : p \in sgl' => p \in sgl \/ p = pr.end
    BY <1>4, Puts
  <2>2. PICK ignore \in BOOLEAN : \E count \in FragmentIndexes : PutPacket(ignore, count)
    BY <1>4, Puts
  <2>3. PICK count \in FragmentIndexes : PutPacket(ignore, count)
    BY <2>2
  <2>4. /\ Back' = Back /\ Filled' = Filled + 1
        /\ \A p \in PacketIndexes : Offset(p)' = Offset(p)
        /\ Offset(pr.end) = Filled /\ pr.end \in PacketIndexes
        /\ \A p \in PacketIndexes : Offset(p) < Filled + 1 <=> Offset(p) < Filled \/ p = pr.end
        /\ \A p \in PacketIndexes : Offset(p) < Filled => p # pr.end
    BY <2>1, <2>3, RingPut
  <2>5. /\ packets'[pr.end].nb # Nothing
        /\ \A p \in PacketIndexes \ {pr.end} : packets'[p] = packets[p]
    BY <2>1, <2>3, PacketPut
  <2>6. \A p \in PacketIndexes : Offset(p) >= Filled + 1 => p # pr.end /\ Offset(p) >= Filled
    BY <1>r, <2>4
  <2>7. Back' <= Filled'
    BY <1>r, <2>4 DEF RingInv
  <2>8. \A p \in PacketIndexes : Offset(p)' >= Filled' => packets'[p] = EmptyPacket
    BY <2>4, <2>5, <2>6 DEF RingInv
  <2>9. \A p \in PacketIndexes : Offset(p)' < Filled' => packets'[p].nb # Nothing
    BY <2>4, <2>5 DEF RingInv
  <2>10. \A p \in sgl' : Offset(p)' < Filled'
    BY <1>r, <2>1, <2>4 DEF RingInv
  <2> QED
    BY <2>7, <2>8, <2>9, <2>10 DEF RingInv
<1>5. CASE CompletePacket
  <2>1. /\ Back' = Back - 1 /\ Filled' = Filled - 1 /\ Back > 0 /\ Filled > 0
        /\ \A p \in PacketIndexes \ {pr.next} : Offset(p) > 0 /\ Offset(p)' = Offset(p) - 1
        /\ \A p \in PacketIndexes : p = pr.next => Offset(p) = 0 /\ Offset(p)' = PacketSlots - 1
        /\ pr.next \in PacketIndexes
    BY <1>5, RingCompleted
  <2>2. /\ sgl' = sgl \ {pr.next} /\ packets' = [packets EXCEPT ![pr.next] = EmptyPacket]
    BY <1>5, PacketCompleted
  <2>3. packets'[pr.next] = EmptyPacket /\ \A p \in PacketIndexes \ {pr.next} : packets'[p] = packets[p]
    BY <2>1, <2>2 DEF TypeInv
  <2>4. PacketSlots - 1 \in Nat /\ Filled <= PacketSlots - 1
    BY Rings, SizesAreNumbers DEF PacketIndexes
  <2>5. Back' <= Filled'
    BY <1>r, <2>1 DEF RingInv
  <2>6. \A p \in PacketIndexes \ {pr.next} : Offset(p)' < Filled' <=> Offset(p) < Filled
    BY <1>r, <2>1
  <2>7. \A p \in PacketIndexes : p = pr.next => ~(Offset(p)' < Filled')
    BY <1>r, <2>1, <2>4
  <2>8. \A p \in PacketIndexes : Offset(p)' \in Int /\ Filled' \in Int
    BY <1>r, <2>1, <2>4
  <2>9. \A p \in PacketIndexes : Offset(p)' >= Filled' => packets'[p] = EmptyPacket
    <3>1. \A p \in PacketIndexes \ {pr.next} : Offset(p)' >= Filled' => Offset(p) >= Filled
      BY <1>r, <2>6, <2>8
    <3> QED
      BY <2>3, <3>1 DEF RingInv
  <2>10. \A p \in PacketIndexes : Offset(p)' < Filled' => packets'[p].nb # Nothing
    BY <2>3, <2>6, <2>7 DEF RingInv
  <2>11. \A p \in sgl' : Offset(p)' < Filled'
    BY <1>r, <2>2, <2>6 DEF RingInv
  <2> QED
    BY <2>5, <2>9, <2>10, <2>11 DEF RingInv
<1>6. UNCHANGED vars \/ (\E n \in Nbls : Send(n) \/ QueueNetBufferList(n)) \/ Stop \/ NicNotifies
        \/ TransmitNbls \/ TransmitNblsStopping \/ SegmentNetBufferList \/ StopTranslating \/ EndPoll
      => UNCHANGED <<pr, packets, sgl>>
  BY DEF vars, rings, Send, QueueNetBufferList, Stop, NicNotifies, TransmitNbls, TransmitNblsStopping,
         SegmentNetBufferList, StopTranslating, EndPoll
<1> QED
  BY <1>1, <1>2, <1>3, <1>4, <1>5, <1>6 DEF Next, Poll

-----------------------------------------------------------------------------
(* The stages.                                                              *)

LEMMA LifeInit == ASSUME Init PROVE LifeInv
<1>1. TypeInv /\ pr.next = 0 /\ pr.begin = 0 /\ pr.end = 0
  BY TypeInit DEF Init
<1>2. Filled = 0
  BY <1>1, RingEmpty DEF AnyNicPackets, AnyReturnedPackets
<1> QED
  BY <1>2 DEF Init, LifeInv

\* The beginning of a drain.
LEMMA DrainBegins ==
  ASSUME TypeInv, RingInv, completedChain = {}
  PROVE  Cardinality(completedChain) + Back <= PacketSlots - 1
<1>1. Cardinality(completedChain) = 0
  BY FS_EmptySet
<1>2. Back \in 0 .. PacketSlots - 1
  BY Rings DEF PacketIndexes
<1> QED
  BY <1>1, <1>2, SizesAreNumbers

LEMMA LifeStep ==
  ASSUME TypeInv, ChainInv, RingInv, LifeInv, [Next]_vars
  PROVE  LifeInv'
<1>t. TypeInv' /\ RingInv'
  BY TypeStep, RingStep
<1>1. CASE UNCHANGED <<life, pc, readyToStop, completedChain, pr>>
  <2>1. Back' = Back /\ Filled' = Filled
    BY <1>1 DEF Back, Filled, Offset
  <2> QED
    BY <1>1, <2>1 DEF LifeInv
<1>2. CASE Start
  <2>1. life = "stopped" /\ life' = "started" /\ UNCHANGED <<pc, readyToStop, completedChain>>
    BY <1>2 DEF Start
  <2>2. pc = "idle" /\ ~readyToStop
    BY <2>1 DEF LifeInv
  <2> QED
    BY <2>1, <2>2 DEF LifeInv
<1>3. CASE Cancel
  <2>1. /\ life = "started" /\ pc = "idle" /\ life' = "stopping"
        /\ UNCHANGED <<pc, readyToStop, completedChain>>
    BY <1>3 DEF Cancel
  <2> QED
    BY <2>1 DEF LifeInv
<1>4. CASE Stop
  <2>1. /\ readyToStop /\ pc = "idle" /\ life' = "stopped" /\ ~readyToStop'
        /\ UNCHANGED <<pc, completedChain, pr>>
    BY <1>4 DEF Stop, polling, rings
  <2>2. Filled' = Filled
    BY <2>1 DEF Filled, Offset
  <2> QED
    BY <2>1, <2>2 DEF LifeInv
<1>5. CASE TransmitNbls
  <2>1. /\ life = "started" /\ pc = "idle" /\ pc' = "translate"
        /\ UNCHANGED <<life, readyToStop, completedChain>>
    BY <1>5 DEF TransmitNbls
  <2> QED
    BY <2>1 DEF LifeInv
<1>6. CASE TransmitNblsStopping
  <2>1. /\ life = "stopping" /\ pc = "idle" /\ UNCHANGED <<life, completedChain, pr>>
        /\ \/ pc' = "yield" /\ readyToStop' = readyToStop
           \/ pc' = "drain" /\ readyToStop' = readyToStop
           \/ pc' = pc /\ readyToStop' /\ ~AnyNicPackets /\ ~AnyReturnedPackets
    <3>1. life = "stopping" /\ pc = "idle" /\ UNCHANGED <<life, completedChain, pr>>
      BY <1>6 DEF TransmitNblsStopping, rings
    <3>2. CASE AnyNicPackets
      BY <1>6, <3>1, <3>2 DEF TransmitNblsStopping
    <3>3. CASE ~AnyNicPackets /\ AnyReturnedPackets
      BY <1>6, <3>1, <3>3 DEF TransmitNblsStopping
    <3>4. CASE ~AnyNicPackets /\ ~AnyReturnedPackets
      BY <1>6, <3>1, <3>4 DEF TransmitNblsStopping
    <3> QED
      BY <3>1, <3>2, <3>3, <3>4
  <2>2. completedChain = {}
    BY <2>1 DEF LifeInv
  <2>3. Filled' = Filled /\ Back' = Back
    BY <2>1 DEF Filled, Back, Offset
  <2>4. Cardinality(completedChain) + Back <= PacketSlots - 1
    BY <2>2, DrainBegins
  <2>5. ~AnyNicPackets /\ ~AnyReturnedPackets => Filled = 0
    BY RingEmpty
  <2> QED
    BY <2>1, <2>2, <2>3, <2>4, <2>5 DEF LifeInv
<1>7. CASE MapNetBuffer \/ BounceNetBuffer \/ IgnoreNetBuffer
  <2>1. pc = "translate" /\ UNCHANGED <<life, readyToStop, pc, completedChain>>
    BY <1>7, Puts
  <2> QED
    BY <2>1 DEF LifeInv
<1>8. CASE StopTranslating
  <2>1. pc = "translate" /\ pc' = "yield" /\ UNCHANGED <<life, readyToStop, completedChain>>
    BY <1>8 DEF StopTranslating
  <2> QED
    BY <2>1 DEF LifeInv
<1>9. CASE YieldToNetAdapter
  <2>1. /\ pc = "yield" /\ UNCHANGED <<life, readyToStop, completedChain>>
        /\ \/ pc' = "end" /\ life = "stopping"
           \/ pc' = "drain"
    BY <1>9 DEF YieldToNetAdapter
  <2>2. PICK k \in 0 .. PacketSlots : Return(k)
    BY <1>9 DEF YieldToNetAdapter
  <2>3. Filled' = Filled
    BY <2>2, RingReturned
  <2>4. completedChain' = {}
    BY <2>1 DEF LifeInv
  <2>5. Cardinality(completedChain') + Back' <= PacketSlots - 1
    <3>1. Cardinality(completedChain') = 0
      BY <2>4, FS_EmptySet
    <3>2. Back' \in 0 .. PacketSlots - 1
      <4>1. (Back \in PacketIndexes)'
        BY <1>t, Rings, PTL
      <4> QED
        BY <4>1 DEF PacketIndexes
    <3> DEFINE c == Cardinality(completedChain')
               b == Back'
    <3>3. c = 0 /\ b \in 0 .. PacketSlots - 1
      BY <3>1, <3>2
    <3> HIDE DEF c, b
    <3>4. c + b <= PacketSlots - 1
      BY <3>3, SizesAreNumbers
    <3> QED
      BY <3>4 DEF c, b
  <2> QED
    BY <2>1, <2>3, <2>4, <2>5 DEF LifeInv
<1>10. CASE CompletePacket
  <2>1. /\ pc = "drain" /\ UNCHANGED <<life, readyToStop, pc>>
        /\ \/ completedChain' = completedChain
           \/ completedChain' = completedChain \cup {packets[pr.next].complete.nbl}
    BY <1>10, PacketCompleted
  <2>2. Back' = Back - 1 /\ Filled > 0
    BY <1>10, RingCompleted
  <2>3. Cardinality(completedChain) \in Nat /\ Cardinality(completedChain') \in Nat
    BY <1>t, FS_CardinalityType DEF TypeInv
  <2>4. Cardinality(completedChain') <= Cardinality(completedChain) + 1
    <3> DEFINE n == packets[pr.next].complete.nbl
    <3>1. Cardinality(completedChain \cup {n})
            = IF n \in completedChain THEN Cardinality(completedChain)
              ELSE Cardinality(completedChain) + 1
      BY FS_AddElement DEF TypeInv
    <3> HIDE DEF n
    <3>2. Cardinality(completedChain \cup {n}) <= Cardinality(completedChain) + 1
      BY <2>3, <3>1
    <3>3. CASE completedChain' = completedChain
      BY <2>3, <3>3
    <3>4. CASE completedChain' = completedChain \cup {n}
      BY <3>2, <3>4
    <3> QED
      BY <2>1, <3>3, <3>4 DEF n
  <2>5. Back \in Nat
    BY Rings
  <2>6. Cardinality(completedChain') + Back' <= PacketSlots - 1
    <3>1. Cardinality(completedChain) + Back <= PacketSlots - 1
      BY <2>1 DEF LifeInv
    <3> QED
      BY <2>2, <2>3, <2>4, <2>5, <3>1, SizesAreNumbers
  <2>7. ~readyToStop /\ life # "stopped"
    <3>1. Filled # 0
      BY <2>2, Rings
    <3> QED
      BY <3>1 DEF LifeInv
  <2> QED
    BY <2>1, <2>6, <2>7 DEF LifeInv
<1>11. CASE EndPoll
  <2>1. /\ pc' = "idle" /\ completedChain' = {} /\ UNCHANGED <<life, readyToStop, pr>>
        /\ pc = "end" \/ pc = "drain"
    BY <1>11 DEF EndPoll, rings
  <2>2. Filled' = Filled
    BY <2>1 DEF Filled, Offset
  <2> QED
    BY <2>1, <2>2 DEF LifeInv
<1>12. UNCHANGED vars \/ (\E n \in Nbls : Send(n) \/ QueueNetBufferList(n)) \/ NicNotifies
         \/ SegmentNetBufferList
       => UNCHANGED <<life, pc, readyToStop, completedChain, pr>>
  BY DEF vars, polling, rings, Send, QueueNetBufferList, NicNotifies, SegmentNetBufferList
<1> QED
  BY <1>1, <1>2, <1>3, <1>4, <1>5, <1>6, <1>7, <1>8, <1>9, <1>10, <1>11, <1>12 DEF Next, Poll

-----------------------------------------------------------------------------
(* Who has the NBLs.                                                        *)

LEMMA NblPlaceOf ==
  /\ NblAt["os"] = atOs /\ NblAt["sending"] = sending /\ NblAt["completing"] = completedChain
  /\ NblAt["queue"] = Named(queue) /\ NblAt["current"] = Named(currentNbl)
  /\ NblAt["packets"] = Carried /\ NblAt["stray"] = strayClones
  /\ NblAt'["os"] = atOs' /\ NblAt'["sending"] = sending' /\ NblAt'["completing"] = completedChain'
  /\ NblAt'["queue"] = Named(queue') /\ NblAt'["current"] = Named(currentNbl')
  /\ NblAt'["packets"] = Carried' /\ NblAt'["stray"] = strayClones'
  BY DEF NblAt, Named

\* The lists of NBLs are lists of items.
LEMMA ListsOfItems ==
  ASSUME TypeInv
  PROVE  /\ queue \in Seq(Items) /\ currentNbl \in Seq(Items)
         /\ Named(queue) \subseteq Nbls /\ Named(currentNbl) \subseteq Nbls
<1>1. ASSUME NEW s \in Seq(Sendable) PROVE s \in Seq(Items) /\ Named(s) \subseteq Nbls
  <2>1. /\ Len(s) \in Nat /\ s \in [1 .. Len(s) -> Sendable] /\ DOMAIN s = 1 .. Len(s)
    BY LenProperties
  <2>2. \A i \in 1 .. Len(s) : s[i] \in Items
    BY <2>1 DEF Sendable
  <2>3. s \in [1 .. Len(s) -> Items]
    BY <2>1, <2>2
  <2>4. s \in Seq(Items)
    BY <2>1, <2>3, SeqDef
  <2> QED
    BY <2>1, <2>2, <2>4, ItemIs DEF Named
<1> QED
  BY <1>1 DEF TypeInv

\* An NBL that is in one place is in no other.
LEMMA OnePlace ==
  ASSUME NblInv, NEW n \in Nbls, NEW i \in NblWhere, NEW j \in NblWhere, i # j, n \in NblAt[i]
  PROVE  n \notin NblAt[j]
  BY Apart DEF NblInv

\* What the packets carry does not change unless they do.
LEMMA CarriedSame ==
  ASSUME packets' = packets
  PROVE  Carried' = Carried /\ \A n \in Nbls, p \in PacketIndexes : Carries(p, n)' <=> Carries(p, n)
  BY DEF Carried, Carries

LEMMA NblInit == ASSUME Init PROVE NblInv
<1>1. /\ atOs = Nbls /\ sending = {} /\ completedChain = {} /\ strayClones = {}
      /\ queue = <<>> /\ currentNbl = <<>>
  BY DEF Init
<1>2. \A p \in PacketIndexes : packets[p].complete = Nothing
  BY EmptyPacketIs DEF Init, PacketIndexes
<1>3. \A n \in Nbls, p \in PacketIndexes : ~Carries(p, n)
  BY <1>2 DEF Carries
<1>4. Carried = {}
  BY <1>3 DEF Carried
<1>5. Named(queue) = {} /\ Named(currentNbl) = {} /\ Distinct(queue) /\ Distinct(currentNbl)
  BY <1>1, EmptyItems
<1>6. Placed(NblAt, NblWhere, Nbls)
  <2>1. \A n \in Nbls : \A j \in NblWhere : n \in NblAt[j] <=> j = "os"
    BY <1>1, <1>4, <1>5, NblPlaceOf DEF NblWhere
  <2>2. "os" \in NblWhere
    BY DEF NblWhere
  <2> QED
    BY <2>1, <2>2 DEF Placed
<1> QED
  BY <1>3, <1>5, <1>6 DEF NblInv

LEMMA NblSend ==
  ASSUME TypeInv, NblInv, NEW n \in Nbls, Send(n)
  PROVE  NblInv'
<1>1. /\ n \in atOs /\ atOs' = atOs \ {n} /\ sending' = sending \cup {n}
      /\ UNCHANGED <<completedChain, queue, currentNbl, packets, strayClones>>
  BY DEF Send, polling, chain, rings
<1>2. /\ Carried' = Carried
      /\ \A m \in Nbls, p \in PacketIndexes : Carries(p, m)' <=> Carries(p, m)
  BY <1>1, CarriedSame
<1>3. /\ NblAt'["os"] = NblAt["os"] \ {n} /\ NblAt'["sending"] = NblAt["sending"] \cup {n}
      /\ {n} \subseteq NblAt["os"]
      /\ \A j \in NblWhere \ {"os", "sending"} : NblAt'[j] = NblAt[j]
  BY <1>1, <1>2, NblPlaceOf DEF NblWhere
<1>4. Placed(NblAt, NblWhere, Nbls) /\ "os" \in NblWhere /\ "sending" \in NblWhere
  BY DEF NblInv, NblWhere
<1>5. Placed(NblAt', NblWhere, Nbls)
  BY <1>3, <1>4, Relocated
<1> QED
  BY <1>1, <1>2, <1>5 DEF NblInv

LEMMA NblQueue ==
  ASSUME TypeInv, NblInv, NEW n \in Nbls, QueueNetBufferList(n)
  PROVE  NblInv'
<1>1. /\ n \in sending /\ sending' = sending \ {n} /\ queue' = Append(queue, Original(n))
      /\ UNCHANGED <<completedChain, atOs, currentNbl, packets, strayClones>>
  BY DEF QueueNetBufferList, chain, rings
<1>2. /\ Carried' = Carried
      /\ \A m \in Nbls, p \in PacketIndexes : Carries(p, m)' <=> Carries(p, m)
  BY <1>1, CarriedSame
<1>3. n \notin Named(queue)
  <2>1. n \in NblAt["sending"] /\ "sending" \in NblWhere /\ "queue" \in NblWhere
    BY <1>1, NblPlaceOf DEF NblWhere
  <2> QED
    BY <2>1, OnePlace, NblPlaceOf
<1>4. Named(queue') = Named(queue) \cup {n} /\ Distinct(queue')
  <2>1. queue \in Seq(Items) /\ Distinct(queue)
    BY ListsOfItems DEF NblInv
  <2>2. Original(n) \in Items /\ Original(n).nbl = n
    BY Originals DEF Sendable
  <2> QED
    BY <1>1, <1>3, <2>1, <2>2, ItemsAppended
<1>5. /\ NblAt'["sending"] = NblAt["sending"] \ {n} /\ NblAt'["queue"] = NblAt["queue"] \cup {n}
      /\ {n} \subseteq NblAt["sending"]
      /\ \A j \in NblWhere \ {"sending", "queue"} : NblAt'[j] = NblAt[j]
  BY <1>1, <1>2, <1>4, NblPlaceOf DEF NblWhere
<1>6. Placed(NblAt, NblWhere, Nbls) /\ "sending" \in NblWhere /\ "queue" \in NblWhere
  BY DEF NblInv, NblWhere
<1>7. Placed(NblAt', NblWhere, Nbls)
  BY <1>5, <1>6, Relocated
<1> QED
  BY <1>1, <1>2, <1>4, <1>7 DEF NblInv

LEMMA NblSame ==
  ASSUME NblInv, UNCHANGED <<atOs, sending, completedChain, queue, packets, strayClones>>,
         Named(currentNbl') = Named(currentNbl), Distinct(currentNbl')
  PROVE  NblInv'
<1>1. /\ Carried' = Carried
      /\ \A m \in Nbls, p \in PacketIndexes : Carries(p, m)' <=> Carries(p, m)
  BY CarriedSame
<1>2. \A j \in NblWhere : NblAt'[j] = NblAt[j]
  BY <1>1, NblPlaceOf DEF NblWhere
<1>3. Placed(NblAt', NblWhere, Nbls)
  BY <1>2, Stays DEF NblInv
<1> QED
  BY <1>1, <1>3 DEF NblInv

LEMMA NblTransmit ==
  ASSUME TypeInv, NblInv, TransmitNbls
  PROVE  NblInv'
<1>1. /\ UNCHANGED <<atOs, sending, completedChain, packets, strayClones>>
      /\ \/ UNCHANGED <<currentNbl, queue>>
         \/ currentNbl = <<>> /\ currentNbl' = queue /\ queue' = <<>>
  BY DEF TransmitNbls, rings, owners
<1>2. CASE UNCHANGED <<currentNbl, queue>>
  BY <1>1, <1>2, NblSame DEF NblInv
<1>3. CASE currentNbl = <<>> /\ currentNbl' = queue /\ queue' = <<>>
  <2>1. /\ Carried' = Carried
        /\ \A m \in Nbls, p \in PacketIndexes : Carries(p, m)' <=> Carries(p, m)
    BY <1>1, CarriedSame
  <2>2. /\ Named(currentNbl) = {} /\ Named(queue') = {} /\ Named(currentNbl') = Named(queue)
        /\ Distinct(queue') /\ Distinct(currentNbl')
    BY <1>3, EmptyItems DEF NblInv
  <2> DEFINE X == Named(queue)
  <2>3. /\ NblAt'["queue"] = NblAt["queue"] \ X /\ NblAt'["current"] = NblAt["current"] \cup X
        /\ X \subseteq NblAt["queue"]
        /\ \A j \in NblWhere \ {"queue", "current"} : NblAt'[j] = NblAt[j]
    BY <1>1, <2>1, <2>2, NblPlaceOf DEF NblWhere
  <2>4. Placed(NblAt, NblWhere, Nbls) /\ "queue" \in NblWhere /\ "current" \in NblWhere
    BY DEF NblInv, NblWhere
  <2> HIDE DEF X
  <2>5. Placed(NblAt', NblWhere, Nbls)
    BY <2>3, <2>4, Relocated
  <2> QED
    BY <2>1, <2>2, <2>5 DEF NblInv
<1> QED
  BY <1>1, <1>2, <1>3

LEMMA NblEndPoll ==
  ASSUME TypeInv, NblInv, EndPoll
  PROVE  NblInv'
<1>1. /\ atOs' = atOs \cup completedChain /\ completedChain' = {}
      /\ UNCHANGED <<sending, queue, currentNbl, packets, strayClones>>
  BY DEF EndPoll, chain, rings
<1>2. /\ Carried' = Carried
      /\ \A m \in Nbls, p \in PacketIndexes : Carries(p, m)' <=> Carries(p, m)
  BY <1>1, CarriedSame
<1> DEFINE X == completedChain
<1>3. /\ NblAt'["completing"] = NblAt["completing"] \ X /\ NblAt'["os"] = NblAt["os"] \cup X
      /\ X \subseteq NblAt["completing"]
      /\ \A j \in NblWhere \ {"completing", "os"} : NblAt'[j] = NblAt[j]
  BY <1>1, <1>2, NblPlaceOf DEF NblWhere
<1>4. Placed(NblAt, NblWhere, Nbls) /\ "completing" \in NblWhere /\ "os" \in NblWhere
  BY DEF NblInv, NblWhere
<1> HIDE DEF X
<1>5. Placed(NblAt', NblWhere, Nbls)
  BY <1>3, <1>4, Relocated
<1> QED
  BY <1>1, <1>2, <1>5 DEF NblInv

\* A clone takes the place of the first item.
LEMMA Segmented ==
  ASSUME NEW s \in Seq(Items), s # <<>>, NEW n \in Nbls, Head(s).nbl = n,
         NEW t, t = <<Clone(n)>> \o Tail(s)
  PROVE  /\ t # <<>> /\ Head(t) = Clone(n)
         /\ Named(t) = Named(s)
         /\ Distinct(s) => Distinct(t)
         /\ Cloned(t) = Cloned(Tail(s)) \cup {n}
<1> DEFINE c == Clone(n)
           u == Tail(s)
<1>1. /\ DOMAIN s = 1 .. Len(s) /\ Len(s) \in Nat \ {0} /\ s[1] = Head(s)
      /\ u \in Seq(Items) /\ Len(u) = Len(s) - 1 /\ DOMAIN u = 1 .. Len(s) - 1
      /\ \A i \in 1 .. Len(s) - 1 : u[i] = s[i + 1]
  BY HeadTailProperties, LenProperties, EmptySeq
<1>2. c \in Items /\ c.nbl = n
  BY Originals
<1>3. /\ t \in Seq(Items) /\ Len(t) = 1 + Len(u) /\ t[1] = c
      /\ \A i \in 2 .. Len(s) : t[i] = u[i - 1]
  <2>1. t = <<c>> \o u
    OBVIOUS
  <2>2. <<c>> \in Seq(Items) /\ Len(<<c>>) = 1 /\ <<c>>[1] = c
    BY <1>2
  <2> DEFINE one == <<c>>
  <2> HIDE DEF u, c, one
  <2>3. one \in Seq(Items) /\ Len(one) = 1 /\ one[1] = c /\ t = one \o u
    BY <2>1, <2>2 DEF one
  <2>4. /\ t \in Seq(Items) /\ Len(t) = Len(one) + Len(u)
        /\ \A i \in 1 .. Len(one) + Len(u) : t[i] = IF i <= Len(one) THEN one[i] ELSE u[i - Len(one)]
    BY <1>1, <2>3, ConcatProperties
  <2> QED
    BY <1>1, <2>3, <2>4
<1> HIDE DEF c, u
<1>4. /\ DOMAIN t = 1 .. Len(s) /\ 1 \in 1 .. Len(s)
      /\ \A i \in 1 .. Len(s) : i = 1 \/ t[i] = s[i]
  <2>1. DOMAIN t = 1 .. Len(s)
    BY <1>1, <1>3, LenProperties
  <2>2. ASSUME NEW i \in 1 .. Len(s), i # 1 PROVE t[i] = s[i]
    <3>1. i \in 2 .. Len(s) /\ i - 1 \in 1 .. Len(s) - 1 /\ (i - 1) + 1 = i
      BY <1>1, <2>2
    <3>2. u[i - 1] = s[(i - 1) + 1]
      BY <1>1, <3>1
    <3> QED
      BY <1>3, <3>1, <3>2
  <2> QED
    BY <1>1, <2>1, <2>2
<1>5. \A i \in 1 .. Len(s) : t[i].nbl = s[i].nbl
  BY <1>1, <1>2, <1>3, <1>4
<1>6. Named(t) = Named(s) /\ (Distinct(s) => Distinct(t))
  <2>1. DOMAIN t = DOMAIN s /\ \A i \in DOMAIN s : t[i].nbl = s[i].nbl
    BY <1>1, <1>4, <1>5
  <2>2. Named(t) = Named(s)
    BY <2>1, Zenon DEF Named
  <2>3. Distinct(s) => Distinct(t)
    BY <2>1, ZenonT(40) DEF Distinct
  <2> QED
    BY <2>2, <2>3
<1>7. t # <<>> /\ Head(t) = c
  BY <1>1, <1>3, HeadTailProperties, LenProperties, EmptySeq
<1>8. \A m \in Nbls : m \in Cloned(t) <=> m \in Cloned(u) \/ m = n
  <2>1. ASSUME NEW m \in Nbls, m \in Cloned(t) PROVE m \in Cloned(u) \/ m = n
    <3>1. PICK i \in 1 .. Len(s) : t[i] = Clone(m)
      BY <1>4, <2>1 DEF Cloned
    <3>2. CASE i = 1
      BY <1>2, <1>3, <3>1, <3>2, Originals
    <3>3. CASE i # 1
      <4>1. i \in 2 .. Len(s) /\ i - 1 \in 1 .. Len(s) - 1
        BY <1>1, <3>3
      <4>2. u[i - 1] = Clone(m) /\ i - 1 \in DOMAIN u
        BY <1>1, <1>3, <3>1, <4>1
      <4> QED
        BY <4>2 DEF Cloned
    <3> QED
      BY <3>2, <3>3
  <2>2. ASSUME NEW m \in Nbls, m \in Cloned(u) PROVE m \in Cloned(t)
    <3>1. PICK i \in 1 .. Len(s) - 1 : u[i] = Clone(m)
      BY <1>1, <2>2 DEF Cloned
    <3>2. i + 1 \in 2 .. Len(s) /\ i + 1 \in 1 .. Len(s) /\ (i + 1) - 1 = i
      BY <1>1
    <3>3. t[i + 1] = Clone(m)
      BY <1>3, <3>1, <3>2
    <3> QED
      BY <1>4, <3>2, <3>3 DEF Cloned
  <2>3. n \in Cloned(t)
    BY <1>3, <1>4 DEF Cloned, c
  <2> QED
    BY <2>1, <2>2, <2>3
<1>9. Cloned(t) = Cloned(u) \cup {n}
  BY <1>8 DEF Cloned
<1> QED
  BY <1>6, <1>7, <1>9 DEF c, u

LEMMA NblSegment ==
  ASSUME TypeInv, ChainInv, NblInv, SegmentNetBufferList
  PROVE  NblInv'
<1>1. /\ UNCHANGED <<atOs, sending, completedChain, queue, packets, strayClones>>
      /\ currentNbl # <<>> /\ currentNbl' = <<Clone(CurrentNbl.nbl)>> \o Tail(currentNbl)
  BY DEF SegmentNetBufferList, Translating, polling, rings, owners
<1>2. currentNbl \in Seq(Items) /\ CurrentNbl.nbl \in Nbls /\ Head(currentNbl).nbl = CurrentNbl.nbl
  BY <1>1, ListsOfItems, Current DEF CurrentNbl
<1>3. Named(currentNbl') = Named(currentNbl) /\ Distinct(currentNbl')
  <2>1. Distinct(currentNbl)
    BY DEF NblInv
  <2> DEFINE n == CurrentNbl.nbl
             t == currentNbl'
  <2>2. /\ currentNbl \in Seq(Items) /\ currentNbl # <<>> /\ n \in Nbls /\ Head(currentNbl).nbl = n
        /\ t = <<Clone(n)>> \o Tail(currentNbl)
    BY <1>1, <1>2
  <2> HIDE DEF n, t
  <2>3. Named(t) = Named(currentNbl) /\ (Distinct(currentNbl) => Distinct(t))
    BY <2>2, Segmented
  <2> QED
    BY <2>1, <2>3 DEF t
<1> QED
  BY <1>1, <1>3, NblSame

\* The NBL goes with the last packet that is made of it.
LEMMA CarriedPut ==
  ASSUME TypeInv, ChainInv, RingInv, currentNbl # <<>>, ~PacketRingFull, NEW ignore \in BOOLEAN,
         NEW count \in FragmentIndexes, PutPacket(ignore, count)
  PROVE  /\ \A n \in Nbls, p \in PacketIndexes \ {pr.end} : Carries(p, n)' <=> Carries(p, n)
         /\ \A n \in Nbls : ~Carries(pr.end, n)
         /\ \A n \in Nbls, p \in PacketIndexes : p = pr.end =>
              (Carries(p, n)' <=> n = CurrentNbl.nbl /\ packets'[pr.end].complete # Nothing)
         /\ \/ /\ packets'[pr.end].complete = CurrentNbl /\ packets'[pr.end].complete # Nothing
               /\ currentNbl' = Tail(currentNbl)
               /\ Carried' = Carried \cup {CurrentNbl.nbl}
            \/ packets'[pr.end].complete = Nothing /\ currentNbl' = currentNbl /\ Carried' = Carried
<1>1. /\ \A p \in PacketIndexes \ {pr.end} : packets'[p] = packets[p]
      /\ \/ /\ packets'[pr.end].complete = CurrentNbl /\ packets'[pr.end].complete # Nothing
            /\ currentNbl' = Tail(currentNbl)
         \/ packets'[pr.end].complete = Nothing /\ currentNbl' = currentNbl
  BY PacketPut
<1>2. pr.end \in PacketIndexes /\ Offset(pr.end) = Filled /\ Filled \in Nat
  BY RingPut, Rings
<1>3. packets[pr.end].complete = Nothing
  <2>1. packets[pr.end] = EmptyPacket
    BY <1>2 DEF RingInv
  <2> QED
    BY <2>1, EmptyPacketIs
<1>4. CurrentNbl.nbl \in Nbls
  BY Current
<1>5. \A n \in Nbls, p \in PacketIndexes \ {pr.end} : Carries(p, n)' <=> Carries(p, n)
  BY <1>1 DEF Carries
<1>6. \A n \in Nbls : ~Carries(pr.end, n)
  BY <1>3 DEF Carries
<1>7. \A n \in Nbls, p \in PacketIndexes : p = pr.end =>
        (Carries(p, n)' <=> n = CurrentNbl.nbl /\ packets'[pr.end].complete # Nothing)
  BY <1>1 DEF Carries
<1>8. Carried' = IF packets'[pr.end].complete # Nothing THEN Carried \cup {CurrentNbl.nbl} ELSE Carried
  <2>0. Carried' = {n \in Nbls : \E p \in PacketIndexes : Carries(p, n)'}
    BY DEF Carried, PacketIndexes
  <2>1. \A n \in Nbls : (\E p \in PacketIndexes : Carries(p, n)')
          <=> \/ \E p \in PacketIndexes : Carries(p, n)
              \/ n = CurrentNbl.nbl /\ packets'[pr.end].complete # Nothing
    BY <1>2, <1>5, <1>6, <1>7
  <2> QED
    BY <1>4, <2>0, <2>1 DEF Carried
<1> QED
  BY <1>1, <1>5, <1>6, <1>7, <1>8

LEMMA NblPut ==
  ASSUME TypeInv, ChainInv, RingInv, NblInv, MapNetBuffer \/ BounceNetBuffer \/ IgnoreNetBuffer
  PROVE  NblInv'
<1>1. /\ UNCHANGED <<atOs, sending, completedChain, queue, strayClones>>
      /\ currentNbl # <<>> /\ ~PacketRingFull
  BY Puts
<1>2. PICK ignore \in BOOLEAN : \E count \in FragmentIndexes : PutPacket(ignore, count)
  BY Puts
<1>3. PICK count \in FragmentIndexes : PutPacket(ignore, count)
  BY <1>2
<1> DEFINE n == CurrentNbl.nbl
<1>4. /\ \A m \in Nbls, p \in PacketIndexes \ {pr.end} : Carries(p, m)' <=> Carries(p, m)
      /\ \A m \in Nbls : ~Carries(pr.end, m)
      /\ \A m \in Nbls, p \in PacketIndexes : p = pr.end =>
           (Carries(p, m)' <=> m = n /\ packets'[pr.end].complete # Nothing)
      /\ \/ /\ packets'[pr.end].complete = CurrentNbl /\ packets'[pr.end].complete # Nothing
            /\ currentNbl' = Tail(currentNbl)
            /\ Carried' = Carried \cup {n}
         \/ packets'[pr.end].complete = Nothing /\ currentNbl' = currentNbl /\ Carried' = Carried
  BY <1>1, <1>3, CarriedPut
<1>5. pr.end \in PacketIndexes
  BY Rings
<1>6. CASE packets'[pr.end].complete = Nothing /\ currentNbl' = currentNbl /\ Carried' = Carried
  <2>1. \A j \in NblWhere : NblAt'[j] = NblAt[j]
    BY <1>1, <1>6, NblPlaceOf DEF NblWhere
  <2>2. Placed(NblAt', NblWhere, Nbls)
    BY <2>1, Stays DEF NblInv
  <2>3. \A m \in Nbls, p \in PacketIndexes : Carries(p, m)' <=> Carries(p, m)
    BY <1>4, <1>6
  <2> QED
    BY <1>1, <1>6, <2>2, <2>3 DEF NblInv
<1>7. CASE /\ packets'[pr.end].complete # Nothing /\ currentNbl' = Tail(currentNbl)
           /\ Carried' = Carried \cup {n}
  <2>1. /\ Named(currentNbl) = Named(currentNbl') \cup {n}
        /\ Distinct(currentNbl') /\ n \notin Named(currentNbl')
    <3>1. currentNbl \in Seq(Items) /\ Distinct(currentNbl)
      BY ListsOfItems DEF NblInv
    <3> QED
      BY <1>1, <1>7, <3>1, ItemsWithoutHead DEF CurrentNbl
  <2>2. n \in Nbls /\ n \notin Carried
    <3>1. n \in Nbls
      BY <1>1, Current
    <3>2. n \in NblAt["current"] /\ "current" \in NblWhere /\ "packets" \in NblWhere
      BY <2>1, NblPlaceOf DEF NblWhere
    <3> HIDE DEF n
    <3> QED
      BY <3>1, <3>2, OnePlace, NblPlaceOf
  <2> HIDE DEF n
  <2>3. /\ NblAt'["current"] = NblAt["current"] \ {n} /\ NblAt'["packets"] = NblAt["packets"] \cup {n}
        /\ {n} \subseteq NblAt["current"]
        /\ \A j \in NblWhere \ {"current", "packets"} : NblAt'[j] = NblAt[j]
    BY <1>1, <1>7, <2>1, NblPlaceOf DEF NblWhere
  <2>4. Placed(NblAt, NblWhere, Nbls) /\ "current" \in NblWhere /\ "packets" \in NblWhere
    BY DEF NblInv, NblWhere
  <2>5. Placed(NblAt', NblWhere, Nbls)
    BY <2>3, <2>4, Relocated
  <2>6. \A p \in PacketIndexes : ~Carries(p, n)
    BY <2>2 DEF Carried
  <2>7. ASSUME NEW m \in Nbls, NEW p \in PacketIndexes, NEW q \in PacketIndexes,
               Carries(p, m)', Carries(q, m)'
        PROVE  p = q
    <3>1. CASE m = n
      <4>1. p = pr.end /\ q = pr.end
        BY <1>4, <2>6, <2>7, <3>1
      <4> QED
        BY <4>1
    <3>2. CASE m # n
      <4>1. p # pr.end /\ q # pr.end
        BY <1>4, <2>7, <3>2
      <4>2. Carries(p, m) /\ Carries(q, m)
        BY <1>4, <2>7, <4>1
      <4> QED
        BY <4>2 DEF NblInv
    <3> QED
      BY <3>1, <3>2
  <2> QED
    BY <1>1, <2>1, <2>5, <2>7 DEF NblInv
<1> QED
  BY <1>4, <1>6, <1>7

\* The NBL of a packet is completed with it.
LEMMA CarriedCompleted ==
  ASSUME TypeInv, CompletePacket
  PROVE  /\ \A n \in Nbls, p \in PacketIndexes \ {pr.next} : Carries(p, n)' <=> Carries(p, n)
         /\ \A n \in Nbls, p \in PacketIndexes : p = pr.next => ~Carries(p, n)'
         /\ packets'[pr.next].complete = Nothing
         /\ \A p \in PacketIndexes \ {pr.next} : packets'[p] = packets[p]
         /\ pr.next \in PacketIndexes
<1>1. packets' = [packets EXCEPT ![pr.next] = EmptyPacket]
  BY PacketCompleted
<1>2. pr.next \in PacketIndexes
  BY Rings
<1>3. packets'[pr.next] = EmptyPacket /\ \A p \in PacketIndexes \ {pr.next} : packets'[p] = packets[p]
  BY <1>1, <1>2 DEF TypeInv
<1>4. packets'[pr.next].complete = Nothing
  BY <1>3, EmptyPacketIs
<1>5. \A n \in Nbls, p \in PacketIndexes \ {pr.next} : Carries(p, n)' <=> Carries(p, n)
  BY <1>3 DEF Carries
<1>6. \A n \in Nbls, p \in PacketIndexes : p = pr.next => ~Carries(p, n)'
  BY <1>4 DEF Carries
<1> QED
  BY <1>2, <1>3, <1>4, <1>5, <1>6

LEMMA NblComplete ==
  ASSUME TypeInv, NblInv, CompletePacket
  PROVE  NblInv'
<1> DEFINE complete == packets[pr.next].complete
           n == complete.nbl
<1>1. /\ UNCHANGED <<atOs, sending, queue, currentNbl, strayClones>>
      /\ IF complete = Nothing THEN completedChain' = completedChain
         ELSE complete \in Items /\ completedChain' = completedChain \cup {n}
  BY PacketCompleted
<1>2. /\ \A m \in Nbls, p \in PacketIndexes \ {pr.next} : Carries(p, m)' <=> Carries(p, m)
      /\ \A m \in Nbls, p \in PacketIndexes : p = pr.next => ~Carries(p, m)'
      /\ pr.next \in PacketIndexes
  BY CarriedCompleted
<1>3. \A m \in Nbls, p \in PacketIndexes : Carries(p, m)' => Carries(p, m)
  BY <1>2
<1>4. Carried' = {m \in Nbls : \E p \in PacketIndexes : Carries(p, m)'}
  BY DEF Carried, PacketIndexes
<1>5. CASE complete = Nothing
  <2>1. \A m \in Nbls : ~Carries(pr.next, m)
    BY <1>5 DEF Carries
  <2>2. Carried' = Carried
    <3>1. \A m \in Nbls : (\E p \in PacketIndexes : Carries(p, m)')
                             <=> \E p \in PacketIndexes : Carries(p, m)
      BY <1>2, <2>1
    <3> QED
      BY <1>4, <3>1 DEF Carried
  <2>3. \A j \in NblWhere : NblAt'[j] = NblAt[j]
    BY <1>1, <1>5, <2>2, NblPlaceOf DEF NblWhere
  <2>4. Placed(NblAt', NblWhere, Nbls)
    BY <2>3, Stays DEF NblInv
  <2> QED
    BY <1>1, <1>3, <2>4 DEF NblInv
<1>6. CASE complete # Nothing
  <2>1. complete \in Items /\ completedChain' = completedChain \cup {n} /\ n \in Nbls
    BY <1>1, <1>6, ItemIs
  <2>2. \A m \in Nbls : Carries(pr.next, m) <=> m = n
    BY <1>6 DEF Carries
  <2> HIDE DEF complete, n
  <2>3. \A p \in PacketIndexes : Carries(p, n) => p = pr.next
    BY <1>2, <2>1, <2>2 DEF NblInv
  <2>4. n \in Carried /\ Carried' = Carried \ {n}
    <3>1. n \in Carried
      BY <1>2, <2>1, <2>2 DEF Carried
    <3>2. \A m \in Nbls : (\E p \in PacketIndexes : Carries(p, m)')
                             <=> m # n /\ \E p \in PacketIndexes : Carries(p, m)
      BY <1>2, <2>2, <2>3
    <3> QED
      BY <1>4, <3>1, <3>2 DEF Carried
  <2>5. /\ NblAt'["packets"] = NblAt["packets"] \ {n}
        /\ NblAt'["completing"] = NblAt["completing"] \cup {n}
        /\ {n} \subseteq NblAt["packets"]
        /\ \A j \in NblWhere \ {"packets", "completing"} : NblAt'[j] = NblAt[j]
    BY <1>1, <2>1, <2>4, NblPlaceOf DEF NblWhere
  <2>6. Placed(NblAt, NblWhere, Nbls) /\ "packets" \in NblWhere /\ "completing" \in NblWhere
    BY DEF NblInv, NblWhere
  <2>7. Placed(NblAt', NblWhere, Nbls)
    BY <2>5, <2>6, Relocated
  <2> QED
    BY <1>1, <1>3, <2>7 DEF NblInv
<1> QED
  BY <1>5, <1>6

\* A stop gives the queue and the current chain back, clones to nobody.
LEMMA Aborted ==
  ASSUME TypeInv, ChainInv, TransmitNblsStopping
  PROVE  \/ UNCHANGED <<queue, currentNbl, currentNb, atOs, strayClones>>
         \/ /\ queue' = <<>> /\ currentNbl' = <<>> /\ ~AnyNicPackets /\ ~AnyReturnedPackets
            /\ \A n \in Nbls : n \in strayClones' <=> n \in strayClones \/ n \in Cloned(currentNbl)
            /\ \A n \in Nbls :
                 n \in atOs' <=> \/ n \in atOs \/ n \in Named(queue)
                                 \/ \E i \in DOMAIN currentNbl : currentNbl[i] = Original(n)
<1> DEFINE items == {currentNbl[i] : i \in DOMAIN currentNbl} \cup {queue[i] : i \in DOMAIN queue}
<1>1. \/ UNCHANGED <<queue, currentNbl, currentNb, atOs, strayClones>>
      \/ /\ queue' = <<>> /\ currentNbl' = <<>> /\ ~AnyNicPackets /\ ~AnyReturnedPackets
         /\ SendNetBufferListsComplete(items)
  BY DEF TransmitNblsStopping, chain
<1>2. ASSUME SendNetBufferListsComplete(items)
      PROVE  /\ \A n \in Nbls : n \in strayClones' <=> n \in strayClones \/ n \in Cloned(currentNbl)
             /\ \A n \in Nbls :
                  n \in atOs' <=> \/ n \in atOs \/ n \in Named(queue)
                                  \/ \E i \in DOMAIN currentNbl : currentNbl[i] = Original(n)
  <2>1. /\ \A i \in DOMAIN currentNbl : currentNbl[i] \in Items
        /\ \A i \in DOMAIN queue : queue[i] \in Items /\ ~queue[i].clone
    BY ListsOfItems, LenProperties, ElementOfSeq DEF ChainInv
  <2>2. /\ atOs' = atOs \cup {item.nbl : item \in {i \in items : ~i.clone}}
        /\ strayClones' = strayClones \cup {item.nbl : item \in {i \in items : i.clone}}
    BY <1>2 DEF SendNetBufferListsComplete
  <2>3. \A item \in items : /\ item \in Items
                            /\ item.clone => item \in {currentNbl[i] : i \in DOMAIN currentNbl}
    BY <2>1
  <2>4. ASSUME NEW n \in Nbls
        PROVE  n \in strayClones' <=> n \in strayClones \/ n \in Cloned(currentNbl)
    <3>1. (\E item \in items : item.clone /\ item.nbl = n) <=> n \in Cloned(currentNbl)
      <4>1. ASSUME NEW item \in items, item.clone, item.nbl = n PROVE n \in Cloned(currentNbl)
        <5>1. item = Clone(n) /\ item \in {currentNbl[i] : i \in DOMAIN currentNbl}
          BY <2>3, <4>1, ItemIs
        <5> QED
          BY <5>1 DEF Cloned
      <4>2. ASSUME n \in Cloned(currentNbl) PROVE \E item \in items : item.clone /\ item.nbl = n
        <5>1. Clone(n) \in items
          BY <4>2 DEF Cloned
        <5> HIDE DEF items
        <5> QED
          BY <5>1, Originals
      <4> QED
        BY <4>1, <4>2
    <3> HIDE DEF items
    <3> QED
      BY <2>2, <3>1
  <2>5. ASSUME NEW n \in Nbls
        PROVE  n \in atOs' <=> \/ n \in atOs \/ n \in Named(queue)
                               \/ \E i \in DOMAIN currentNbl : currentNbl[i] = Original(n)
    <3>1. (\E item \in items : ~item.clone /\ item.nbl = n)
             <=> \/ n \in Named(queue)
                 \/ \E i \in DOMAIN currentNbl : currentNbl[i] = Original(n)
      <4>1. ASSUME NEW item \in items, ~item.clone, item.nbl = n
            PROVE  \/ n \in Named(queue)
                   \/ \E i \in DOMAIN currentNbl : currentNbl[i] = Original(n)
        <5>1. item = Original(n)
          BY <2>3, <4>1, ItemIs
        <5> QED
          BY <4>1, <5>1 DEF Named
      <4>2. ASSUME NEW i \in DOMAIN currentNbl, currentNbl[i] = Original(n)
            PROVE  \E item \in items : ~item.clone /\ item.nbl = n
        <5>1. Original(n) \in items
          BY <4>2
        <5> HIDE DEF items
        <5> QED
          BY <5>1, Originals
      <4>3. ASSUME n \in Named(queue)
            PROVE  \E item \in items : ~item.clone /\ item.nbl = n
        <5>1. PICK i \in DOMAIN queue : queue[i].nbl = n
          BY <4>3 DEF Named
        <5>2. queue[i] \in items /\ ~queue[i].clone
          BY <2>1
        <5> HIDE DEF items
        <5> QED
          BY <5>1, <5>2
      <4> QED
        BY <4>1, <4>2, <4>3
    <3> HIDE DEF items
    <3> QED
      BY <2>2, <3>1
  <2> QED
    BY <2>4, <2>5
<1> QED
  BY <1>1, <1>2

LEMMA NblStopping ==
  ASSUME TypeInv, ChainInv, NblInv, TransmitNblsStopping
  PROVE  NblInv'
<1>1. /\ UNCHANGED <<sending, completedChain, packets>>
  BY DEF TransmitNblsStopping, rings
<1>2. /\ Carried' = Carried
      /\ \A m \in Nbls, p \in PacketIndexes : Carries(p, m)' <=> Carries(p, m)
  BY <1>1, CarriedSame
<1>3. CASE UNCHANGED <<queue, currentNbl, currentNb, atOs, strayClones>>
  BY <1>1, <1>3, NblSame DEF NblInv
<1>4. CASE /\ queue' = <<>> /\ currentNbl' = <<>>
           /\ \A n \in Nbls : n \in strayClones' <=> n \in strayClones \/ n \in Cloned(currentNbl)
           /\ \A n \in Nbls :
                n \in atOs' <=> \/ n \in atOs \/ n \in Named(queue)
                                \/ \E i \in DOMAIN currentNbl : currentNbl[i] = Original(n)
  <2>1. /\ Named(queue') = {} /\ Named(currentNbl') = {}
        /\ Distinct(queue') /\ Distinct(currentNbl')
    BY <1>4, EmptyItems
  <2>2. ASSUME NEW n \in Nbls
        PROVE  \E k \in NblWhere : \A j \in NblWhere : n \in NblAt'[j] <=> j = k
    <3>1. PICK k \in NblWhere : \A j \in NblWhere : n \in NblAt[j] <=> j = k
      BY DEF NblInv, Placed
    <3>2. /\ n \in atOs <=> k = "os"
          /\ n \in sending <=> k = "sending"
          /\ n \in completedChain <=> k = "completing"
          /\ n \in Named(queue) <=> k = "queue"
          /\ n \in Named(currentNbl) <=> k = "current"
          /\ n \in Carried <=> k = "packets"
          /\ n \in strayClones <=> k = "stray"
      <4>1. /\ n \in NblAt["os"] <=> k = "os"
            /\ n \in NblAt["sending"] <=> k = "sending"
            /\ n \in NblAt["completing"] <=> k = "completing"
            /\ n \in NblAt["queue"] <=> k = "queue"
            /\ n \in NblAt["current"] <=> k = "current"
            /\ n \in NblAt["packets"] <=> k = "packets"
            /\ n \in NblAt["stray"] <=> k = "stray"
        BY <3>1 DEF NblWhere
      <4> QED
        BY <4>1, NblPlaceOf
    <3> DEFINE original == \E i \in DOMAIN currentNbl : currentNbl[i] = Original(n)
    <3>3. /\ n \in Named(currentNbl) <=> original \/ n \in Cloned(currentNbl)
          /\ ~(original /\ n \in Cloned(currentNbl))
      <4>1. \A i \in DOMAIN currentNbl : currentNbl[i] \in Items
        BY ListsOfItems, LenProperties, ElementOfSeq
      <4>2. ASSUME NEW i \in DOMAIN currentNbl, currentNbl[i].nbl = n
            PROVE  original \/ n \in Cloned(currentNbl)
        BY <4>1, <4>2, ItemIs DEF Cloned
      <4>3. original \/ n \in Cloned(currentNbl) => n \in Named(currentNbl)
        BY Originals DEF Cloned, Named
      <4>4. ASSUME original, n \in Cloned(currentNbl) PROVE FALSE
        <5>1. PICK i \in DOMAIN currentNbl : currentNbl[i] = Original(n)
          BY <4>4
        <5>2. PICK j \in DOMAIN currentNbl : currentNbl[j] = Clone(n)
          BY <4>4 DEF Cloned
        <5>3. currentNbl[i].nbl = currentNbl[j].nbl
          BY <5>1, <5>2, Originals
        <5>4. i = j
          BY <5>3 DEF NblInv, Distinct
        <5> QED
          BY <5>1, <5>2, <5>4, Originals
      <4> QED
        BY <4>2, <4>3, <4>4 DEF Named
    <3> HIDE DEF original
    <3>4. /\ n \in strayClones' <=> n \in strayClones \/ n \in Cloned(currentNbl)
          /\ n \in atOs' <=> n \in atOs \/ n \in Named(queue) \/ original
      BY <1>4 DEF original
    <3> DEFINE after == IF k = "queue" \/ original THEN "os"
                        ELSE IF k = "current" THEN "stray" ELSE k
    <3>5. /\ n \in NblAt'["os"] <=> after = "os"
          /\ n \in NblAt'["sending"] <=> after = "sending"
          /\ n \in NblAt'["completing"] <=> after = "completing"
          /\ n \in NblAt'["queue"] <=> after = "queue"
          /\ n \in NblAt'["current"] <=> after = "current"
          /\ n \in NblAt'["packets"] <=> after = "packets"
          /\ n \in NblAt'["stray"] <=> after = "stray"
      <4>1. /\ n \in atOs' <=> after = "os"
            /\ n \in sending' <=> after = "sending"
            /\ n \in completedChain' <=> after = "completing"
            /\ n \in Named(queue') <=> after = "queue"
            /\ n \in Named(currentNbl') <=> after = "current"
            /\ n \in Carried' <=> after = "packets"
            /\ n \in strayClones' <=> after = "stray"
        <5>1. /\ n \in atOs' <=> after = "os"
              /\ n \in strayClones' <=> after = "stray"
          BY <3>2, <3>3, <3>4
        <5>2. /\ n \in sending' <=> after = "sending"
              /\ n \in completedChain' <=> after = "completing"
              /\ n \in Carried' <=> after = "packets"
          BY <1>1, <1>2, <3>2, <3>3
        <5>3. ~(n \in Named(queue')) /\ ~(n \in Named(currentNbl')) /\ after # "queue" /\ after # "current"
          BY <2>1
        <5> QED
          BY <5>1, <5>2, <5>3
      <4> HIDE DEF after
      <4> QED
        BY <4>1, NblPlaceOf
    <3>6. after \in NblWhere
      BY DEF NblWhere
    <3> HIDE DEF after
    <3>7. \A j \in NblWhere : n \in NblAt'[j] <=> j = after
      BY <3>5 DEF NblWhere
    <3> QED
      BY <3>6, <3>7
  <2>3. Placed(NblAt', NblWhere, Nbls)
    BY <2>2 DEF Placed
  <2> QED
    BY <1>2, <2>1, <2>3 DEF NblInv
<1> QED
  BY <1>3, <1>4, Aborted

LEMMA NblStep ==
  ASSUME TypeInv, ChainInv, RingInv, NblInv, [Next]_vars
  PROVE  NblInv'
<1>1. CASE UNCHANGED <<atOs, sending, completedChain, queue, currentNbl, packets, strayClones>>
  BY <1>1, NblSame DEF NblInv
<1>2. UNCHANGED vars \/ Start \/ Cancel \/ Stop \/ NicNotifies \/ StopTranslating \/ YieldToNetAdapter
      => UNCHANGED <<atOs, sending, completedChain, queue, currentNbl, packets, strayClones>>
  BY DEF vars, polling, rings, chain, owners, Start, Cancel, Stop, NicNotifies, StopTranslating,
         YieldToNetAdapter
<1> QED
  BY <1>1, <1>2, NblSend, NblQueue, NblTransmit, NblStopping, NblSegment, NblPut, NblComplete,
     NblEndPoll DEF Next, Poll

-----------------------------------------------------------------------------
(* The clones.                                                              *)

Clones == {n \in Nbls : n \in Cloned(currentNbl) \/ \E p \in PacketIndexes : packets[p].complete = Clone(n)}

\* An NBL of the current chain, or with a packet, is not astray.
LEMMA NotAstray ==
  ASSUME NblInv, NEW n \in Nbls, n \in Named(currentNbl) \/ n \in Carried
  PROVE  /\ n \notin strayClones
         /\ n \in Carried => n \notin Named(currentNbl)
<1>1. "current" \in NblWhere /\ "packets" \in NblWhere /\ "stray" \in NblWhere
  BY DEF NblWhere
<1>2. n \in NblAt["current"] \/ n \in NblAt["packets"]
  BY NblPlaceOf
<1>3. n \notin NblAt["stray"]
  BY <1>1, <1>2, OnePlace
<1>4. n \in NblAt["packets"] => n \notin NblAt["current"]
  BY <1>1, OnePlace
<1> QED
  BY <1>3, <1>4, NblPlaceOf

LEMMA CloneInit == ASSUME Init PROVE CloneInv
<1>1. clones = {} /\ strayClones = {} /\ currentNbl = <<>>
  BY DEF Init
<1>2. \A p \in PacketIndexes : packets[p].complete = Nothing
  BY EmptyPacketIs DEF Init, PacketIndexes
<1>3. \A n \in Nbls : Clone(n) # Nothing
  BY Originals, NothingIsApart
<1>4. Cloned(currentNbl) = {}
  BY <1>1, EmptyItems
<1> QED
  BY <1>1, <1>2, <1>3, <1>4 DEF CloneInv

LEMMA CloneTransmit ==
  ASSUME TypeInv, ChainInv, CloneInv, TransmitNbls
  PROVE  CloneInv'
<1>1. /\ UNCHANGED <<clones, strayClones, packets>>
      /\ \/ UNCHANGED <<currentNbl, queue>>
         \/ currentNbl = <<>> /\ currentNbl' = queue
  BY DEF TransmitNbls, rings, owners
<1>2. CASE currentNbl = <<>> /\ currentNbl' = queue
  <2>1. Cloned(currentNbl) = {}
    BY <1>2, EmptyItems
  <2>2. Cloned(currentNbl') = {}
    BY <1>2, Originals DEF Cloned, ChainInv
  <2> QED
    BY <1>1, <2>1, <2>2 DEF CloneInv, PacketIndexes
<1>3. CASE UNCHANGED <<currentNbl, queue>>
  BY <1>1, <1>3 DEF CloneInv, Cloned, PacketIndexes
<1> QED
  BY <1>1, <1>2, <1>3

LEMMA CloneStopping ==
  ASSUME TypeInv, ChainInv, RingInv, CloneInv, TransmitNblsStopping
  PROVE  CloneInv'
<1>1. UNCHANGED <<clones, packets>>
  BY DEF TransmitNblsStopping, rings
<1>2. CASE UNCHANGED <<currentNbl, strayClones>>
  BY <1>1, <1>2 DEF CloneInv, Cloned, PacketIndexes
<1>3. CASE /\ currentNbl' = <<>> /\ ~AnyNicPackets /\ ~AnyReturnedPackets
           /\ \A n \in Nbls : n \in strayClones' <=> n \in strayClones \/ n \in Cloned(currentNbl)
  <2>1. Filled = 0
    BY <1>3, RingEmpty
  <2>2. \A p \in PacketIndexes : packets[p] = EmptyPacket
    BY <2>1, Rings DEF RingInv
  <2>3. \A n \in Nbls, p \in PacketIndexes : packets[p].complete # Clone(n)
    BY <2>2, EmptyPacketIs, Originals, NothingIsApart
  <2>4. clones \ strayClones = {n \in Nbls : n \in Cloned(currentNbl)} /\ clones \in SUBSET Nbls
    BY <2>3 DEF CloneInv, TypeInv
  <2>5. clones' \ strayClones' = {}
    BY <1>1, <1>3, <2>4
  <2>6. Cloned(currentNbl') = {}
    BY <1>3, EmptyItems
  <2>7. {n \in Nbls : n \in Cloned(currentNbl')
                        \/ \E p \in PacketIndexes : packets'[p].complete = Clone(n)} = {}
    BY <1>1, <2>3, <2>6
  <2> QED
    BY <2>5, <2>7 DEF CloneInv, PacketIndexes
<1>4. UNCHANGED <<currentNbl, strayClones>>
        \/ /\ currentNbl' = <<>> /\ ~AnyNicPackets /\ ~AnyReturnedPackets
           /\ \A n \in Nbls : n \in strayClones' <=> n \in strayClones \/ n \in Cloned(currentNbl)
  BY Aborted
<1> QED
  BY <1>2, <1>3, <1>4

LEMMA CloneSegment ==
  ASSUME TypeInv, ChainInv, NblInv, CloneInv, SegmentNetBufferList
  PROVE  CloneInv'
<1> DEFINE n == CurrentNbl.nbl
           t == currentNbl'
<1>1. /\ currentNbl # <<>> /\ ~CurrentNbl.clone /\ clones' = clones \cup {n}
      /\ t = <<Clone(n)>> \o Tail(currentNbl)
      /\ UNCHANGED <<packets, strayClones>>
  BY DEF SegmentNetBufferList, Translating, IsSoftwareGsoRequired, rings, owners
<1>2. currentNbl \in Seq(Items) /\ n \in Nbls /\ Head(currentNbl).nbl = n
  BY <1>1, ListsOfItems, Current DEF CurrentNbl
<1>3. \A m \in Nbls : m \in Cloned(currentNbl) <=> m \in Cloned(Tail(currentNbl))
  <2>1. \A m \in Nbls : Head(currentNbl) # Clone(m)
    BY <1>1, Originals DEF CurrentNbl
  <2> QED
    BY <1>1, <1>2, <2>1, ItemsWithoutHead
<1>4. n \in Named(currentNbl)
  BY <1>1, <1>2, ItemsWithoutHead DEF CurrentNbl
<1>5. n \notin strayClones
  BY <1>2, <1>4, NotAstray
<1> HIDE DEF n, t
<1>6. \A m \in Nbls : m \in Cloned(t) <=> m \in Cloned(Tail(currentNbl)) \/ m = n
  <2>1. /\ currentNbl \in Seq(Items) /\ currentNbl # <<>> /\ n \in Nbls /\ Head(currentNbl).nbl = n
        /\ t = <<Clone(n)>> \o Tail(currentNbl)
    BY <1>1, <1>2
  <2>2. Cloned(t) = Cloned(Tail(currentNbl)) \cup {n}
    BY <2>1, Segmented
  <2> QED
    BY <2>2
<1>7. clones' \ strayClones' =
        {m \in Nbls : m \in Cloned(t) \/ \E p \in PacketIndexes : packets[p].complete = Clone(m)}
  BY <1>1, <1>2, <1>3, <1>5, <1>6 DEF CloneInv
<1> QED
  BY <1>1, <1>7 DEF CloneInv, PacketIndexes, t

LEMMA ClonePut ==
  ASSUME TypeInv, ChainInv, RingInv, CloneInv, MapNetBuffer \/ BounceNetBuffer \/ IgnoreNetBuffer
  PROVE  CloneInv'
<1>1. UNCHANGED <<clones, strayClones>> /\ currentNbl # <<>> /\ ~PacketRingFull
  BY Puts
<1>2. PICK ignore \in BOOLEAN : \E count \in FragmentIndexes : PutPacket(ignore, count)
  BY Puts
<1>3. PICK count \in FragmentIndexes : PutPacket(ignore, count)
  BY <1>2
<1>4. /\ \A p \in PacketIndexes \ {pr.end} : packets'[p] = packets[p]
      /\ \/ /\ packets'[pr.end].complete = CurrentNbl
            /\ currentNbl' = Tail(currentNbl)
         \/ packets'[pr.end].complete = Nothing /\ currentNbl' = currentNbl
  BY <1>1, <1>3, PacketPut
<1>5. pr.end \in PacketIndexes /\ packets[pr.end].complete = Nothing
  <2>1. pr.end \in PacketIndexes /\ Offset(pr.end) = Filled /\ Filled \in Nat
    BY <1>1, <1>3, RingPut, Rings
  <2>2. packets[pr.end] = EmptyPacket
    BY <2>1 DEF RingInv
  <2> QED
    BY <2>1, <2>2, EmptyPacketIs
<1>6. \A m \in Nbls : m \in Cloned(currentNbl) <=> m \in Cloned(Tail(currentNbl)) \/ CurrentNbl = Clone(m)
  <2>1. currentNbl \in Seq(Items)
    BY ListsOfItems
  <2> QED
    BY <1>1, <2>1, ItemsWithoutHead DEF CurrentNbl
<1>7. \A m \in Nbls : Clone(m) # Nothing
  BY Originals, NothingIsApart
<1>8. ASSUME NEW m \in Nbls
      PROVE  (m \in Cloned(currentNbl') \/ \E p \in PacketIndexes : packets'[p].complete = Clone(m))
         <=> (m \in Cloned(currentNbl) \/ \E p \in PacketIndexes : packets[p].complete = Clone(m))
  <2>1. CASE packets'[pr.end].complete = Nothing /\ currentNbl' = currentNbl
    BY <1>4, <1>5, <1>7, <2>1
  <2>2. CASE packets'[pr.end].complete = CurrentNbl /\ currentNbl' = Tail(currentNbl)
    BY <1>4, <1>5, <1>6, <1>7, <2>2
  <2> QED
    BY <1>4, <2>1, <2>2
<1> QED
  BY <1>1, <1>8 DEF CloneInv, PacketIndexes

LEMMA CloneComplete ==
  ASSUME TypeInv, NblInv, CloneInv, CompletePacket
  PROVE  CloneInv'
<1> DEFINE complete == packets[pr.next].complete
           n == complete.nbl
<1>1. /\ UNCHANGED <<currentNbl, strayClones>>
      /\ IF complete = Nothing THEN clones' = clones
         ELSE /\ complete \in Items
              /\ clones' = IF complete.clone THEN clones \ {n} ELSE clones
  BY PacketCompleted
<1>2. /\ packets'[pr.next].complete = Nothing
      /\ \A p \in PacketIndexes \ {pr.next} : packets'[p] = packets[p]
      /\ pr.next \in PacketIndexes
  BY CarriedCompleted
<1>3. \A m \in Nbls : Clone(m) # Nothing
  BY Originals, NothingIsApart
<1>4. CASE \A m \in Nbls : complete # Clone(m)
  <2>1. clones' = clones
    BY <1>1, <1>4, ItemIs
  <2>2. \A m \in Nbls : (\E p \in PacketIndexes : packets'[p].complete = Clone(m))
                           <=> \E p \in PacketIndexes : packets[p].complete = Clone(m)
    BY <1>2, <1>3, <1>4
  <2>3. \A m \in Nbls : m \in Cloned(currentNbl') <=> m \in Cloned(currentNbl)
    BY <1>1
  <2> QED
    BY <1>1, <2>1, <2>2, <2>3 DEF CloneInv, PacketIndexes
<1>5. CASE \E m \in Nbls : complete = Clone(m)
  <2>1. n \in Nbls /\ complete = Clone(n) /\ complete # Nothing /\ complete.clone
    BY <1>3, <1>5, Originals
  <2>2. clones' = clones \ {n}
    BY <1>1, <2>1
  <2>3. Carries(pr.next, n)
    BY <2>1 DEF Carries
  <2> HIDE DEF complete, n
  <2>4. n \in Carried
    BY <1>2, <2>1, <2>3 DEF Carried
  <2>5. n \notin Cloned(currentNbl)
    <3>1. n \notin Named(currentNbl)
      BY <2>1, <2>4, NotAstray
    <3> QED
      BY <2>1, <3>1, Originals DEF Named, Cloned
  <2>6. \A p \in PacketIndexes \ {pr.next} : packets[p].complete # Clone(n)
    <3>1. ASSUME NEW p \in PacketIndexes \ {pr.next}, packets[p].complete = Clone(n) PROVE FALSE
      <4>1. Carries(p, n)
        BY <2>1, <3>1, <1>3, Originals DEF Carries
      <4> QED
        BY <1>2, <2>1, <2>3, <4>1 DEF NblInv
    <3> QED
      BY <3>1
  <2>7. ASSUME NEW m \in Nbls
        PROVE  (m \in Cloned(currentNbl') \/ \E p \in PacketIndexes : packets'[p].complete = Clone(m))
           <=> /\ m \in Cloned(currentNbl) \/ \E p \in PacketIndexes : packets[p].complete = Clone(m)
               /\ m # n
    <3>1. m # n => packets[pr.next].complete # Clone(m)
      BY <2>1, Originals DEF complete
    <3>2. m = n => \A p \in PacketIndexes : packets'[p].complete # Clone(m)
      BY <1>2, <1>3, <2>1, <2>6
    <3>3. m = n => m \notin Cloned(currentNbl')
      BY <1>1, <2>5
    <3>4. m # n => ((\E p \in PacketIndexes : packets'[p].complete = Clone(m))
                       <=> \E p \in PacketIndexes : packets[p].complete = Clone(m))
      BY <1>2, <1>3, <3>1
    <3> QED
      BY <1>1, <3>2, <3>3, <3>4
  <2> QED
    BY <1>1, <2>2, <2>7 DEF CloneInv, PacketIndexes
<1> QED
  BY <1>4, <1>5

LEMMA CloneStep ==
  ASSUME TypeInv, ChainInv, RingInv, NblInv, CloneInv, [Next]_vars
  PROVE  CloneInv'
<1>1. CASE UNCHANGED <<clones, currentNbl, packets, strayClones>>
  BY <1>1 DEF CloneInv, Cloned, PacketIndexes
<1>2. UNCHANGED vars \/ (\E n \in Nbls : Send(n) \/ QueueNetBufferList(n)) \/ Start \/ Cancel \/ Stop
        \/ NicNotifies \/ StopTranslating \/ YieldToNetAdapter \/ EndPoll
      => UNCHANGED <<clones, currentNbl, packets, strayClones>>
  BY DEF vars, rings, chain, owners, Send, QueueNetBufferList, Start, Cancel, Stop, NicNotifies,
         StopTranslating, YieldToNetAdapter, EndPoll
<1> QED
  BY <1>1, <1>2, CloneTransmit, CloneStopping, CloneSegment, ClonePut, CloneComplete DEF Next, Poll

-----------------------------------------------------------------------------
(* Where the packets come from.                                             *)

LEMMA OriginInit == ASSUME Init PROVE OriginInv
<1>1. Filled = 0 /\ TypeInv
  <2>1. TypeInv /\ pr.next = 0 /\ pr.begin = 0 /\ pr.end = 0
    BY TypeInit DEF Init
  <2> QED
    BY <2>1, RingEmpty DEF AnyNicPackets, AnyReturnedPackets
<1>2. \A p \in PacketIndexes : Offset(p) \in Nat
  BY <1>1, Rings
<1> QED
  BY <1>1, <1>2 DEF OriginInv

\* Nothing is lost when the offsets and the packets stay and the first NBL does.
LEMMA OriginSame ==
  ASSUME OriginInv, packets' = packets, Filled' = Filled,
         \A p \in PacketIndexes : Offset(p)' = Offset(p),
         currentNbl # <<>> => currentNbl' # <<>> /\ Head(currentNbl').nbl = Head(currentNbl).nbl
  PROVE  OriginInv'
<1>1. \A p \in PacketIndexes, n \in Nbls : Carries(p, n)' <=> Carries(p, n)
  BY DEF Carries
<1>2. ASSUME NEW p \in PacketIndexes, NEW n \in Nbls, Offset(p)' < Filled', packets'[p].nb.item.nbl = n
      PROVE  \/ \E q \in PacketIndexes : Offset(p)' <= Offset(q)' /\ Carries(q, n)'
             \/ currentNbl' # <<>> /\ Head(currentNbl').nbl = n
  <2>1. \/ \E q \in PacketIndexes : Offset(p) <= Offset(q) /\ Carries(q, n)
        \/ currentNbl # <<>> /\ Head(currentNbl).nbl = n
    BY <1>2 DEF OriginInv
  <2> QED
    BY <1>1, <2>1
<1> QED
  BY <1>2 DEF OriginInv, PacketIndexes

\* A packet is made of the first NBL.
LEMMA OriginPut ==
  ASSUME TypeInv, ChainInv, RingInv, OriginInv, MapNetBuffer \/ BounceNetBuffer \/ IgnoreNetBuffer
  PROVE  OriginInv'
<1>1. currentNbl # <<>> /\ ~PacketRingFull
  BY Puts
<1>2. PICK ignore \in BOOLEAN : \E count \in FragmentIndexes : PutPacket(ignore, count)
  BY Puts
<1>3. PICK count \in FragmentIndexes : PutPacket(ignore, count)
  BY <1>2
<1>4. /\ Filled' = Filled + 1 /\ \A p \in PacketIndexes : Offset(p)' = Offset(p)
      /\ Offset(pr.end) = Filled /\ pr.end \in PacketIndexes
      /\ \A p \in PacketIndexes : Offset(p) < Filled + 1 <=> Offset(p) < Filled \/ p = pr.end
  BY <1>1, <1>3, RingPut
<1>5. /\ \A n \in Nbls, p \in PacketIndexes \ {pr.end} : Carries(p, n)' <=> Carries(p, n)
      /\ \A n \in Nbls : ~Carries(pr.end, n)
      /\ \A n \in Nbls, p \in PacketIndexes : p = pr.end =>
           (Carries(p, n)' <=> n = CurrentNbl.nbl /\ packets'[pr.end].complete # Nothing)
      /\ \/ packets'[pr.end].complete # Nothing
         \/ currentNbl' = currentNbl
  BY <1>1, <1>3, CarriedPut
<1>6. /\ packets'[pr.end].nb = Bytes(CurrentNbl, CurrentNetBuffer)
      /\ \A p \in PacketIndexes \ {pr.end} : packets'[p] = packets[p]
  BY <1>1, <1>3, PacketPut
<1>7. packets'[pr.end].nb.item.nbl = CurrentNbl.nbl /\ CurrentNbl.nbl \in Nbls
  BY <1>1, <1>6, Current DEF Bytes
<1>8. /\ Filled \in Nat /\ \A p \in PacketIndexes : Offset(p) \in Nat
  BY Rings
<1>9. ASSUME NEW p \in PacketIndexes, NEW n \in Nbls, Offset(p) < Filled + 1, packets'[p].nb.item.nbl = n
      PROVE  \/ \E q \in PacketIndexes : Offset(p) <= Offset(q) /\ Carries(q, n)'
             \/ currentNbl' # <<>> /\ Head(currentNbl').nbl = n
  <2>1. Offset(p) <= Filled
    BY <1>8, <1>9
  <2>2. CASE n = CurrentNbl.nbl
    <3>1. CASE packets'[pr.end].complete # Nothing
      BY <1>4, <1>5, <2>1, <2>2, <3>1
    <3>2. CASE currentNbl' = currentNbl
      BY <1>1, <2>2, <3>2 DEF CurrentNbl
    <3> QED
      BY <1>5, <3>1, <3>2
  <2>3. CASE n # CurrentNbl.nbl
    <3>1. p # pr.end /\ Offset(p) < Filled
      BY <1>4, <1>7, <1>9, <2>3
    <3>2. packets[p].nb.item.nbl = n
      BY <1>6, <1>9, <3>1
    <3>3. PICK q \in PacketIndexes : Offset(p) <= Offset(q) /\ Carries(q, n)
      BY <2>3, <3>1, <3>2 DEF OriginInv, CurrentNbl
    <3>4. Carries(q, n)'
      BY <1>5, <3>3
    <3> QED
      BY <3>3, <3>4
  <2> QED
    BY <2>2, <2>3
<1> QED
  BY <1>4, <1>9 DEF OriginInv, PacketIndexes

LEMMA OriginComplete ==
  ASSUME TypeInv, RingInv, OriginInv, CompletePacket
  PROVE  OriginInv'
<1>1. /\ Filled' = Filled - 1
      /\ \A p \in PacketIndexes \ {pr.next} : Offset(p) > 0 /\ Offset(p)' = Offset(p) - 1
      /\ \A p \in PacketIndexes : p = pr.next => Offset(p) = 0 /\ Offset(p)' = PacketSlots - 1
  BY RingCompleted
<1>2. /\ \A n \in Nbls, p \in PacketIndexes \ {pr.next} : Carries(p, n)' <=> Carries(p, n)
      /\ \A p \in PacketIndexes \ {pr.next} : packets'[p] = packets[p]
  BY CarriedCompleted
<1>3. currentNbl' = currentNbl
  BY PacketCompleted
<1>4. /\ Filled \in Nat /\ Filled <= PacketSlots - 1 /\ PacketSlots \in Nat
      /\ \A p \in PacketIndexes : Offset(p) \in Nat
  BY Rings, SizesAreNumbers DEF PacketIndexes
<1>5. ASSUME NEW p \in PacketIndexes, NEW n \in Nbls, Offset(p)' < Filled', packets'[p].nb.item.nbl = n
      PROVE  \/ \E q \in PacketIndexes : Offset(p)' <= Offset(q)' /\ Carries(q, n)'
             \/ currentNbl' # <<>> /\ Head(currentNbl').nbl = n
  <2>1. p # pr.next
    BY <1>1, <1>4, <1>5
  <2>2. Offset(p) < Filled /\ Offset(p) > 0 /\ Offset(p)' = Offset(p) - 1
    BY <1>1, <1>4, <1>5, <2>1
  <2>3. packets[p].nb.item.nbl = n
    BY <1>2, <1>5, <2>1
  <2>4. CASE \E q \in PacketIndexes : Offset(p) <= Offset(q) /\ Carries(q, n)
    <3>1. PICK q \in PacketIndexes : Offset(p) <= Offset(q) /\ Carries(q, n)
      BY <2>4
    <3>2. q # pr.next
      BY <1>1, <1>4, <2>2, <3>1
    <3>3. Carries(q, n)' /\ Offset(q)' = Offset(q) - 1
      BY <1>1, <1>2, <3>1, <3>2
    <3>4. Offset(p)' <= Offset(q)'
      BY <1>4, <2>2, <3>1, <3>3
    <3> QED
      BY <3>3, <3>4
  <2> QED
    BY <1>3, <2>2, <2>3, <2>4 DEF OriginInv
<1> QED
  BY <1>5 DEF OriginInv, PacketIndexes

LEMMA OriginStep ==
  ASSUME TypeInv, ChainInv, RingInv, LifeInv, OriginInv, [Next]_vars
  PROVE  OriginInv'
<1>1. CASE UNCHANGED <<pr, packets, currentNbl>>
  <2>1. /\ Filled' = Filled /\ \A p \in PacketIndexes : Offset(p)' = Offset(p)
    BY <1>1, RingSame
  <2> QED
    BY <1>1, <2>1, OriginSame
<1>2. CASE Start
  <2>1. Filled' = 0
    BY <1>2, RingStarted
  <2>2. (\A p \in PacketIndexes : Offset(p) \in PacketIndexes)' /\ PacketIndexes \subseteq Nat
    <3>1. TypeInv'
      BY <1>2, LifeTypes
    <3>2. (\A p \in PacketIndexes : Offset(p) \in PacketIndexes)'
      BY <3>1, Rings, PTL
    <3> QED
      BY <3>2, Rings
  <2> QED
    BY <2>1, <2>2 DEF OriginInv, PacketIndexes
<1>3. CASE Cancel \/ YieldToNetAdapter
  <2>1. PICK k \in 0 .. PacketSlots : Return(k)
    BY <1>3 DEF Cancel, YieldToNetAdapter
  <2>2. UNCHANGED <<packets, currentNbl>>
    BY <1>3 DEF Cancel, YieldToNetAdapter, chain
  <2>3. Filled' = Filled /\ \A p \in PacketIndexes : Offset(p)' = Offset(p)
    BY <2>1, RingReturned
  <2> QED
    BY <2>2, <2>3, OriginSame
<1>4. CASE TransmitNbls
  <2>1. UNCHANGED <<pr, packets>> /\ (currentNbl # <<>> => currentNbl' = currentNbl)
    BY <1>4 DEF TransmitNbls, rings
  <2>2. /\ Filled' = Filled /\ \A p \in PacketIndexes : Offset(p)' = Offset(p)
    BY <2>1, RingSame
  <2> QED
    BY <2>1, <2>2, OriginSame
<1>5. CASE TransmitNblsStopping
  <2>1. UNCHANGED <<pr, packets>>
    BY <1>5 DEF TransmitNblsStopping, rings
  <2>2. /\ Filled' = Filled /\ \A p \in PacketIndexes : Offset(p)' = Offset(p)
    BY <2>1, RingSame
  <2>3. CASE currentNbl' = currentNbl
    BY <1>1, <2>1, <2>3
  <2>4. CASE ~AnyNicPackets /\ ~AnyReturnedPackets
    <3>1. Filled = 0
      BY <2>4, RingEmpty
    <3>2. \A p \in PacketIndexes : Offset(p) \in Nat
      BY Rings
    <3> QED
      BY <2>2, <3>1, <3>2 DEF OriginInv, PacketIndexes
  <2> QED
    BY <1>5, <2>3, <2>4, Aborted
<1>6. CASE SegmentNetBufferList
  <2> DEFINE n == CurrentNbl.nbl
             t == currentNbl'
  <2>1. /\ UNCHANGED <<pr, packets>>
        /\ currentNbl # <<>> /\ t = <<Clone(n)>> \o Tail(currentNbl)
    BY <1>6 DEF SegmentNetBufferList, Translating, rings
  <2>2. currentNbl \in Seq(Items) /\ n \in Nbls /\ Head(currentNbl).nbl = n
    BY <2>1, ListsOfItems, Current DEF CurrentNbl
  <2> HIDE DEF n, t
  <2>3. t # <<>> /\ Head(t) = Clone(n)
    BY <2>1, <2>2, Segmented
  <2>4. Head(t).nbl = Head(currentNbl).nbl
    BY <2>2, <2>3, Originals
  <2>5. /\ Filled' = Filled /\ \A p \in PacketIndexes : Offset(p)' = Offset(p)
    BY <2>1, RingSame
  <2> QED
    BY <2>1, <2>3, <2>4, <2>5, OriginSame DEF t
<1>7. UNCHANGED vars \/ (\E n \in Nbls : Send(n) \/ QueueNetBufferList(n)) \/ Stop
        \/ NicNotifies \/ StopTranslating \/ EndPoll
      => UNCHANGED <<pr, packets, currentNbl>>
  BY DEF vars, rings, chain, Send, QueueNetBufferList, Stop, NicNotifies, StopTranslating, EndPoll
<1> QED
  BY <1>1, <1>2, <1>3, <1>4, <1>5, <1>6, <1>7, OriginPut, OriginComplete DEF Next, Poll

-----------------------------------------------------------------------------
(* The owners.                                                              *)

LEMMA OwnersInit == ASSUME Init PROVE OwnersInv
  BY TypeInit, ChainInit, RingInit, LifeInit, NblInit, CloneInit, OriginInit DEF OwnersInv

LEMMA OwnersStep == ASSUME OwnersInv, [Next]_vars PROVE OwnersInv'
  BY TypeStep, ChainStep, RingStep, LifeStep, NblStep, CloneStep, OriginStep DEF OwnersInv

\* Every NBL of a transmit queue has one owner, its clone is known, and a packet
\* is made of an NBL that comes back no earlier than the packet.
THEOREM TransmitOwners == Spec => []OwnersInv
<1>1. Init => OwnersInv
  BY OwnersInit
<1>2. OwnersInv /\ [Next]_vars => OwnersInv'
  BY OwnersStep
<1> QED
  BY <1>1, <1>2, PTL DEF Spec

\* The terms of Places.
LEMMA ListedOnce ==
  ASSUME NEW s \in Seq(Items), Distinct(s), NEW n
  PROVE  Cardinality({i \in DOMAIN s : s[i].nbl = n}) = IF n \in Named(s) THEN 1 ELSE 0
<1> DEFINE S == {i \in DOMAIN s : s[i].nbl = n}
<1>1. \A i, j \in S : i = j
  BY DEF Distinct
<1>2. S = {} <=> n \notin Named(s)
  BY DEF Named
<1> HIDE DEF S
<1>3. Cardinality(S) = IF n \in Named(s) THEN 1 ELSE 0
  BY <1>1, <1>2, AtMostOne
<1> QED
  BY <1>3 DEF S

LEMMA CarriedOnce ==
  ASSUME TypeInv, NblInv, NEW n \in Nbls
  PROVE  Cardinality({p \in DOMAIN packets : packets[p].complete \in {Original(n), Clone(n)}})
           = IF n \in Carried THEN 1 ELSE 0
<1> DEFINE S == {p \in DOMAIN packets : packets[p].complete \in {Original(n), Clone(n)}}
<1>1. DOMAIN packets = PacketIndexes
  BY DEF TypeInv
<1>2. \A p \in PacketIndexes : p \in S <=> Carries(p, n)
  BY <1>1, CarriesIs
<1>3. S \subseteq PacketIndexes
  BY <1>1
<1> HIDE DEF S
<1>4. \A p, q \in S : p = q
  BY <1>2, <1>3 DEF NblInv
<1>5. S = {} <=> n \notin Carried
  BY <1>2, <1>3 DEF Carried
<1>6. Cardinality(S) = IF n \in Carried THEN 1 ELSE 0
  BY <1>4, <1>5, AtMostOne
<1> QED
  BY <1>6 DEF S

LEMMA OwnersAreSomewhere == ASSUME OwnersInv PROVE NblsAreSomewhere
<1>0. TypeInv /\ NblInv
  BY DEF OwnersInv
<1> SUFFICES ASSUME NEW n \in Nbls PROVE Places(n) = IF n \in strayClones THEN 0 ELSE 1
  BY DEF NblsAreSomewhere
<1> DEFINE a == Cardinality({n} \cap atOs)
           b == Cardinality({n} \cap sending)
           c == Cardinality({n} \cap completedChain)
           d == Cardinality({i \in DOMAIN queue : queue[i].nbl = n})
           e == Cardinality({i \in DOMAIN currentNbl : currentNbl[i].nbl = n})
           f == Cardinality({p \in DOMAIN packets : packets[p].complete \in {Original(n), Clone(n)}})
<1>1. /\ a = IF n \in atOs THEN 1 ELSE 0
      /\ b = IF n \in sending THEN 1 ELSE 0
      /\ c = IF n \in completedChain THEN 1 ELSE 0
  BY InASet
<1>2. /\ d = IF n \in Named(queue) THEN 1 ELSE 0
      /\ e = IF n \in Named(currentNbl) THEN 1 ELSE 0
  BY <1>0, ListsOfItems, ListedOnce DEF NblInv
<1>3. f = IF n \in Carried THEN 1 ELSE 0
  BY <1>0, CarriedOnce
<1>4. Places(n) = a + b + c + d + e + f
  BY DEF Places
<1> HIDE DEF a, b, c, d, e, f
<1>5. PICK k \in NblWhere : \A j \in NblWhere : n \in NblAt[j] <=> j = k
  BY <1>0 DEF NblInv, Placed
<1>6. /\ n \in NblAt["os"] <=> k = "os"
      /\ n \in NblAt["sending"] <=> k = "sending"
      /\ n \in NblAt["completing"] <=> k = "completing"
      /\ n \in NblAt["queue"] <=> k = "queue"
      /\ n \in NblAt["current"] <=> k = "current"
      /\ n \in NblAt["packets"] <=> k = "packets"
      /\ n \in NblAt["stray"] <=> k = "stray"
  BY <1>5 DEF NblWhere
<1>7. /\ n \in atOs <=> k = "os"
      /\ n \in sending <=> k = "sending"
      /\ n \in completedChain <=> k = "completing"
      /\ n \in Named(queue) <=> k = "queue"
      /\ n \in Named(currentNbl) <=> k = "current"
      /\ n \in Carried <=> k = "packets"
      /\ n \in strayClones <=> k = "stray"
  BY <1>6, NblPlaceOf
<1>8. /\ a = IF k = "os" THEN 1 ELSE 0
      /\ b = IF k = "sending" THEN 1 ELSE 0
      /\ c = IF k = "completing" THEN 1 ELSE 0
      /\ d = IF k = "queue" THEN 1 ELSE 0
      /\ e = IF k = "current" THEN 1 ELSE 0
      /\ f = IF k = "packets" THEN 1 ELSE 0
  BY <1>1, <1>2, <1>3, <1>7
<1>9. a + b + c + d + e + f = IF k = "stray" THEN 0 ELSE 1
  <2>1. CASE k = "stray"
    BY <1>8, <2>1
  <2>2. CASE k # "stray"
    <3>1. k \in {"os", "sending", "completing", "queue", "current", "packets"}
      BY <2>2 DEF NblWhere
    <3> QED
      BY <1>8, <3>1
  <2> QED
    BY <2>1, <2>2
<1> QED
  BY <1>4, <1>7, <1>9

\* Every NBL is in one place: with its owner, on its way, queued, being translated,
\* with its last packet, or being completed; but for those whose clone a stop has
\* given to NDIS, which are nowhere.
THEOREM TransmitSomewhere == Spec => []NblsAreSomewhere
<1>1. OwnersInv => NblsAreSomewhere
  BY OwnersAreSomewhere
<1> QED
  BY <1>1, TransmitOwners, PTL

-----------------------------------------------------------------------------
(* The fragments of the packets.                                            *)

LEMMA ExtentTypes ==
  ASSUME TypeInv
  PROVE  /\ \A p \in PacketIndexes :
              /\ From(p) \in Nat /\ From(p) < FragmentSlots
              /\ packets[p].index \in FragmentIndexes
              /\ packets[p].count \in Nat /\ packets[p].count < FragmentSlots
              /\ To(p) \in Int /\ To(p) = From(p) - packets[p].count
         /\ \A f \in FragmentIndexes : Behind(f) \in Nat /\ Behind(f) < FragmentSlots
         /\ Behind(fr.begin) \in Nat /\ Behind(fr.begin) < FragmentSlots
         /\ FragmentSlots \in Nat
<1>1. \A i \in FragmentIndexes : i \in Nat /\ i < FragmentSlots
  BY SizesAreNumbers DEF FragmentIndexes
<1>2. \A p \in PacketIndexes : packets[p].index \in FragmentIndexes /\ packets[p].count \in FragmentIndexes
  BY Rings, PacketFields
<1>3. \A f \in FragmentIndexes : Behind(f) \in FragmentIndexes
  BY Rings
<1>4. \A p \in PacketIndexes : From(p) \in FragmentIndexes
  BY <1>2, <1>3 DEF From
<1>5. fr.begin \in FragmentIndexes
  BY Rings
<1> QED
  BY <1>1, <1>2, <1>3, <1>4, <1>5, SizesAreNumbers DEF To

\* The fragments of a packet in the ring.
LEMMA FragmentsOfAre ==
  ASSUME TypeInv, NEW p \in PacketIndexes, packets[p].count <= From(p)
  PROVE  FragmentsOf(p) = {f \in FragmentIndexes : To(p) < Behind(f) /\ Behind(f) <= From(p)}
<1> DEFINE i == packets[p].index
           k == packets[p].count
           e == fr.end
<1>1. /\ i \in 0 .. FragmentSlots - 1 /\ e \in 0 .. FragmentSlots - 1 /\ k \in Nat
      /\ k <= Count(FragmentSlots, i, e) /\ FragmentSlots \in Nat \ {0}
  BY ExtentTypes, Rings, SizesAreNumbers DEF FragmentIndexes, From, Behind
<1>2. /\ FragmentsOf(p) = Elements(FragmentSlots, i, k)
      /\ From(p) = Count(FragmentSlots, i, e) /\ To(p) = Count(FragmentSlots, i, e) - k
      /\ \A f \in FragmentIndexes : Behind(f) = Count(FragmentSlots, f, e)
  BY DEF FragmentsOf, From, To, Behind
<1> HIDE DEF i, k, e
<1>3. Elements(FragmentSlots, i, k)
        = {f \in 0 .. FragmentSlots - 1 : /\ Count(FragmentSlots, i, e) - k < Count(FragmentSlots, f, e)
                                          /\ Count(FragmentSlots, f, e) <= Count(FragmentSlots, i, e)}
  BY <1>1, ElementsBehind
<1> QED
  BY <1>2, <1>3 DEF FragmentIndexes

LEMMA OwnsIs ==
  ASSUME TypeInv, FragmentInv, NEW p \in PacketIndexes, Nic(p)
  PROVE  \A f \in FragmentIndexes : Owns(p, f) <=> f \in FragmentsOf(p)
<1>1. packets[p].count <= From(p)
  BY DEF FragmentInv
<1> QED
  BY <1>1, FragmentsOfAre DEF Owns

LEMMA FragmentsOfIn ==
  ASSUME TypeInv, NEW p \in PacketIndexes
  PROVE  FragmentsOf(p) \subseteq FragmentIndexes
<1> DEFINE i == packets[p].index
           k == packets[p].count
<1>1. i \in 0 .. FragmentSlots - 1 /\ k \in 0 .. FragmentSlots /\ FragmentSlots \in Nat \ {0}
  BY ExtentTypes, SizesAreNumbers DEF FragmentIndexes
<1>2. FragmentsOf(p) = Elements(FragmentSlots, i, k)
  BY DEF FragmentsOf
<1> HIDE DEF i, k
<1>3. Elements(FragmentSlots, i, k) = {f \in 0 .. FragmentSlots - 1 : Count(FragmentSlots, i, f) < k}
  BY <1>1, ElementsAre
<1> QED
  BY <1>2, <1>3 DEF FragmentIndexes

\* A fragment belongs to one packet.
LEMMA OneOwner ==
  ASSUME TypeInv, FragmentInv, NEW p \in PacketIndexes, NEW q \in PacketIndexes,
         NEW f \in FragmentIndexes, Owns(p, f), Owns(q, f)
  PROVE  p = q
<1>1. /\ Nic(p) /\ To(p) < Behind(f) /\ Behind(f) <= From(p)
      /\ Nic(q) /\ To(q) < Behind(f) /\ Behind(f) <= From(q)
  BY DEF Owns
<1>2. /\ Offset(p) \in Nat /\ Offset(q) \in Nat /\ Behind(f) \in Nat
      /\ To(p) \in Int /\ To(q) \in Int /\ From(p) \in Nat /\ From(q) \in Nat
  BY Rings, ExtentTypes
<1>3. ~(Offset(p) < Offset(q))
  <2>1. Offset(p) < Offset(q) => From(q) <= To(p)
    BY <1>1 DEF FragmentInv
  <2> QED
    BY <1>1, <1>2, <2>1
<1>4. ~(Offset(q) < Offset(p))
  <2>1. Offset(q) < Offset(p) => From(p) <= To(q)
    BY <1>1 DEF FragmentInv
  <2> QED
    BY <1>1, <1>2, <2>1
<1>5. Offset(p) = Offset(q)
  BY <1>2, <1>3, <1>4
<1>6. /\ pr.next \in 0 .. PacketSlots - 1 /\ p \in 0 .. PacketSlots - 1 /\ q \in 0 .. PacketSlots - 1
      /\ Count(PacketSlots, pr.next, p) = Count(PacketSlots, pr.next, q)
  BY <1>5, Rings DEF PacketIndexes, Offset
<1> QED
  BY <1>6, SizesAreNumbers, CountBetween

\* The packet that is put becomes the last of those that the NIC has.
LEMMA NicPut ==
  ASSUME TypeInv, ChainInv, RingInv, currentNbl # <<>>, ~PacketRingFull, NEW ignore \in BOOLEAN,
         NEW count \in FragmentIndexes, PutPacket(ignore, count)
  PROVE  /\ \A p \in PacketIndexes : Nic(p)' <=> Nic(p) \/ p = pr.end
         /\ \A p \in PacketIndexes : Nic(p) => p # pr.end
<1>1. /\ Back' = Back /\ Filled' = Filled + 1
      /\ \A p \in PacketIndexes : Offset(p)' = Offset(p)
      /\ Offset(pr.end) = Filled /\ pr.end \in PacketIndexes
      /\ \A p \in PacketIndexes : Offset(p) < Filled + 1 <=> Offset(p) < Filled \/ p = pr.end
      /\ \A p \in PacketIndexes : Offset(p) < Filled => p # pr.end
  BY RingPut
<1>2. Back <= Filled
  BY DEF RingInv
<1> QED
  BY <1>1, <1>2 DEF Nic

\* The end of the fragment ring moves on as a packet is put.
LEMMA FragmentsPut ==
  ASSUME TypeInv, ChainInv, RingInv, FragmentInv, currentNbl # <<>>, ~PacketRingFull,
         NEW ignore \in BOOLEAN, NEW count \in FragmentIndexes, PutPacket(ignore, count),
         count <= AvailableFragments
  PROVE  /\ \A p \in PacketIndexes : Nic(p) =>
              From(p)' = From(p) + count /\ To(p)' = To(p) + count /\ 0 <= To(p)
         /\ \A p \in PacketIndexes : p = pr.end => From(p)' = count /\ To(p)' = 0
         /\ Behind(fr.begin)' = Behind(fr.begin) + count
         /\ \A f \in FragmentIndexes :
              f \in Elements(FragmentSlots, fr.end, count) <=> 0 < Behind(f)' /\ Behind(f)' <= count
         /\ \A f \in FragmentIndexes :
              \/ Behind(f)' = Behind(f) + count
              \/ Behind(f)' < count
         /\ \A f \in FragmentIndexes :
              Behind(f) <= Behind(fr.begin) => Behind(f)' = Behind(f) + count
         /\ count \in Nat
<1> DEFINE b == fr.begin
           e == fr.end
           z == Advance(FragmentSlots, fr.end, count)
           s == FragmentSlots
<1>1. /\ fr'.begin = b /\ fr'.end = z /\ fr' = [fr EXCEPT !.end = z]
      /\ packets'[pr.end].index = e /\ packets'[pr.end].count = count
      /\ \A p \in PacketIndexes \ {pr.end} : packets'[p] = packets[p]
  BY PacketPut DEF TypeInv
<1>2. /\ s \in Nat \ {0} /\ b \in 0 .. s - 1 /\ e \in 0 .. s - 1 /\ count \in 0 .. s - 1
      /\ count \in 0 .. s
  BY Rings, SizesAreNumbers DEF FragmentIndexes
<1>3. z \in 0 .. s - 1
  BY <1>2, AdvanceIs
<1>4. /\ \A f \in FragmentIndexes : Behind(f) = Count(s, f, e) /\ Behind(f)' = Count(s, f, z)
      /\ Behind(fr.begin) = Count(s, b, e) /\ Behind(fr.begin)' = Count(s, b, z)
      /\ \A p \in PacketIndexes : From(p) = Count(s, packets[p].index, e)
      /\ \A p \in PacketIndexes : From(p)' = Count(s, packets'[p].index, z)
      /\ \A p \in PacketIndexes : To(p)' = From(p)' - packets'[p].count
      /\ Elements(FragmentSlots, fr.end, count) = Elements(s, e, count)
      /\ count <= s - 1 - Count(s, b, e)
  BY <1>1, AvailableIs DEF Behind, From, To
<1>5. \A i \in 0 .. s - 1 : Count(s, i, z) = IF Count(s, i, e) + count < s THEN Count(s, i, e) + count
                                            ELSE Count(s, i, e) + count - s
  BY <1>2, CountToAdvanced DEF z
<1>6. Count(s, e, z) = count
  BY <1>2, CountFromAdvanced DEF z
<1> HIDE DEF b, e, z, s
<1>7. \A i \in 0 .. s - 1 : Count(s, i, e) \in 0 .. s - 1 /\ Count(s, i, z) \in 0 .. s - 1
  BY <1>2, <1>3, CountIs
<1>8. \A i \in 0 .. s - 1 : Count(s, i, e) <= Count(s, b, e) => Count(s, i, z) = Count(s, i, e) + count
  <2> SUFFICES ASSUME NEW i \in 0 .. s - 1, Count(s, i, e) <= Count(s, b, e)
               PROVE  Count(s, i, z) = Count(s, i, e) + count
    OBVIOUS
  <2>1. /\ Count(s, i, e) \in Int /\ Count(s, b, e) \in Int /\ count \in Int /\ s \in Int
        /\ count <= s - 1 - Count(s, b, e)
    BY <1>2, <1>4, <1>7
  <2>2. Count(s, i, e) + count < s
    BY <2>1
  <2> QED
    BY <1>5, <2>2
<1>9. \A i \in 0 .. s - 1 : Count(s, i, z) = Count(s, i, e) + count \/ Count(s, i, z) < count
  BY <1>2, <1>5, <1>7
<1>10. FragmentIndexes = 0 .. s - 1
  BY DEF FragmentIndexes, s
<1>11. \A f \in FragmentIndexes :
         f \in Elements(FragmentSlots, fr.end, count) <=> 0 < Behind(f)' /\ Behind(f)' <= count
  <2>1. count <= Count(s, e, z)
    BY <1>2, <1>6
  <2>2. Elements(s, e, count) = {j \in 0 .. s - 1 : /\ Count(s, e, z) - count < Count(s, j, z)
                                                    /\ Count(s, j, z) <= Count(s, e, z)}
    BY <1>2, <1>3, <2>1, ElementsBehind
  <2>3. Count(s, e, z) - count = 0
    BY <1>2, <1>6
  <2> QED
    BY <1>4, <1>6, <1>10, <2>2, <2>3
<1>12. ASSUME NEW p \in PacketIndexes, Nic(p)
       PROVE  From(p)' = From(p) + count /\ To(p)' = To(p) + count /\ 0 <= To(p)
  <2>1. p # pr.end
    BY <1>12, NicPut
  <2>2. packets'[p] = packets[p] /\ packets[p].index \in 0 .. s - 1
    BY <1>1, <1>10, <2>1, ExtentTypes
  <2>3. From(p) <= Behind(fr.begin) /\ packets[p].count <= From(p)
    BY <1>12 DEF FragmentInv
  <2>4. From(p)' = From(p) + count
    BY <1>4, <1>8, <2>2, <2>3
  <2>5. /\ From(p) \in Nat /\ packets[p].count \in Nat /\ To(p) = From(p) - packets[p].count
        /\ To(p)' = From(p)' - packets[p].count
    BY <1>4, <2>2, ExtentTypes
  <2> QED
    BY <1>2, <2>3, <2>4, <2>5
<1>13. ASSUME NEW p \in PacketIndexes, p = pr.end PROVE From(p)' = count /\ To(p)' = 0
  <2>1. packets'[p].index = e /\ packets'[p].count = count
    BY <1>1, <1>13
  <2>2. From(p)' = count /\ To(p)' = count - count
    BY <1>4, <1>6, <2>1
  <2> QED
    BY <1>2, <2>2
<1>14. Behind(fr.begin)' = Behind(fr.begin) + count
  <2>1. Count(s, b, e) <= Count(s, b, e)
    BY <1>2, <1>7
  <2> QED
    BY <1>2, <1>4, <1>8, <2>1
<1>15. \A f \in FragmentIndexes : Behind(f)' = Behind(f) + count \/ Behind(f)' < count
  BY <1>4, <1>9, <1>10
<1>16. \A f \in FragmentIndexes : Behind(f) <= Behind(fr.begin) => Behind(f)' = Behind(f) + count
  BY <1>4, <1>8, <1>10
<1> QED
  BY <1>2, <1>11, <1>12, <1>13, <1>14, <1>15, <1>16

\* Two packets are not at the same place of the ring.
LEMMA SameOffset ==
  ASSUME TypeInv, NEW p \in PacketIndexes, NEW q \in PacketIndexes, Offset(p) = Offset(q)
  PROVE  p = q
<1>1. /\ pr.next \in 0 .. PacketSlots - 1 /\ p \in 0 .. PacketSlots - 1 /\ q \in 0 .. PacketSlots - 1
      /\ Count(PacketSlots, pr.next, p) = Count(PacketSlots, pr.next, q)
  BY Rings DEF PacketIndexes, Offset
<1> QED
  BY <1>1, SizesAreNumbers, CountBetween

\* The packets that the NIC has, counted from the first of them.
LEMMA CountFromBegin ==
  ASSUME TypeInv, NEW p \in PacketIndexes
  PROVE  Count(PacketSlots, pr.begin, p) = IF Back <= Offset(p) THEN Offset(p) - Back
                                           ELSE Offset(p) - Back + PacketSlots
<1>1. /\ pr.next \in 0 .. PacketSlots - 1 /\ pr.begin \in 0 .. PacketSlots - 1
      /\ p \in 0 .. PacketSlots - 1 /\ Back \in Int /\ Offset(p) \in Int
  BY Rings DEF PacketIndexes
<1>2. Back <= Offset(p) => Count(PacketSlots, pr.begin, p) = Offset(p) - Back
  BY <1>1, SizesAreNumbers, CountBetween DEF Back, Offset
<1>3. Back > Offset(p) => Count(PacketSlots, pr.begin, p) = Offset(p) - Back + PacketSlots
  BY <1>1, SizesAreNumbers, CountBetween DEF Back, Offset
<1> QED
  BY <1>1, <1>2, <1>3

LEMMA FragmentInit == ASSUME Init PROVE FragmentInv /\ DataInv
<1>1. Filled = 0 /\ TypeInv
  <2>1. TypeInv /\ pr.next = 0 /\ pr.begin = 0 /\ pr.end = 0
    BY TypeInit DEF Init
  <2> QED
    BY <2>1, RingEmpty DEF AnyNicPackets, AnyReturnedPackets
<1>2. \A p \in PacketIndexes : ~(Offset(p) < Filled)
  <2>1. \A p \in PacketIndexes : Offset(p) \in Nat
    BY <1>1, Rings
  <2> QED
    BY <1>1, <2>1
<1> QED
  BY <1>2 DEF FragmentInv, DataInv, Owns, Nic

\* The extents stay where the end of the fragment ring and the packets do.
LEMMA ExtentsSame ==
  ASSUME packets' = packets, fr'.end = fr.end
  PROVE  /\ \A f \in FragmentIndexes : Behind(f)' = Behind(f)
         /\ \A p \in PacketIndexes : From(p)' = From(p) /\ To(p)' = To(p)
  BY DEF Behind, From, To

LEMMA FragmentPut ==
  ASSUME TypeInv, ChainInv, RingInv, FragmentInv, MapNetBuffer \/ BounceNetBuffer \/ IgnoreNetBuffer
  PROVE  FragmentInv'
<1>1. currentNbl # <<>> /\ ~PacketRingFull
  BY Puts
<1>2. PICK ignore \in BOOLEAN : \E count \in FragmentIndexes :
        PutPacket(ignore, count) /\ count <= AvailableFragments /\ (ignore <=> count = 0)
  BY Puts
<1>3. PICK count \in FragmentIndexes :
        PutPacket(ignore, count) /\ count <= AvailableFragments /\ (ignore <=> count = 0)
  BY <1>2
<1>5. /\ Filled' = Filled + 1
      /\ \A p \in PacketIndexes : Offset(p)' = Offset(p)
      /\ Offset(pr.end) = Filled /\ pr.end \in PacketIndexes
      /\ \A p \in PacketIndexes : Offset(p) < Filled + 1 <=> Offset(p) < Filled \/ p = pr.end
      /\ \A p \in PacketIndexes : Offset(p) < Filled => p # pr.end
  BY <1>1, <1>3, RingPut
<1>4. /\ \A p \in PacketIndexes : Nic(p)' <=> Nic(p) \/ p = pr.end
      /\ \A p \in PacketIndexes : Nic(p) => p # pr.end
  BY <1>1, <1>3, NicPut
<1>6. /\ packets'[pr.end].ignore = ignore /\ packets'[pr.end].count = count
      /\ \A p \in PacketIndexes \ {pr.end} : packets'[p] = packets[p]
  BY <1>1, <1>3, PacketPut
<1>7. /\ \A p \in PacketIndexes : Nic(p) =>
              From(p)' = From(p) + count /\ To(p)' = To(p) + count /\ 0 <= To(p)
      /\ \A p \in PacketIndexes : p = pr.end => From(p)' = count /\ To(p)' = 0
      /\ Behind(fr.begin)' = Behind(fr.begin) + count
      /\ count \in Nat
  BY <1>1, <1>3, FragmentsPut
<1>8. /\ \A p \in PacketIndexes :
           /\ From(p) \in Nat /\ packets[p].count \in Nat /\ To(p) \in Int /\ Offset(p) \in Nat
      /\ Behind(fr.begin) \in Nat /\ Filled \in Nat
  BY ExtentTypes, Rings
<1>9. ASSUME NEW p \in PacketIndexes, Offset(p)' < Filled'
      PROVE  packets'[p].ignore <=> packets'[p].count = 0
  <2>1. CASE p = pr.end
    BY <1>3, <1>6, <2>1
  <2>2. CASE p # pr.end
    <3>1. Offset(p) < Filled /\ packets'[p] = packets[p]
      BY <1>5, <1>6, <1>9, <2>2
    <3> QED
      BY <3>1 DEF FragmentInv
  <2> QED
    BY <2>1, <2>2
<1>10. ASSUME NEW p \in PacketIndexes, Nic(p)'
       PROVE  packets'[p].count <= From(p)' /\ From(p)' <= Behind(fr.begin)'
  <2>1. CASE p = pr.end
    <3>1. packets'[p].count = count /\ From(p)' = count
      BY <1>6, <1>7, <2>1
    <3>2. count <= Behind(fr.begin)' /\ count <= count
      BY <1>7, <1>8
    <3> QED
      BY <3>1, <3>2
  <2>2. CASE p # pr.end
    <3>1. Nic(p) /\ packets'[p] = packets[p]
      BY <1>4, <1>6, <1>10, <2>2
    <3>2. packets[p].count <= From(p) /\ From(p) <= Behind(fr.begin)
      BY <3>1 DEF FragmentInv
    <3> QED
      BY <1>7, <1>8, <3>1, <3>2
  <2> QED
    BY <2>1, <2>2
<1>11. ASSUME NEW p \in PacketIndexes, NEW q \in PacketIndexes, Nic(p)', Nic(q)',
              Offset(p)' < Offset(q)'
       PROVE  From(q)' <= To(p)'
  <2>1. Offset(p) < Offset(q) /\ Offset(q) < Filled + 1
    BY <1>5, <1>11 DEF Nic
  <2>2. p # pr.end
    BY <1>5, <1>8, <2>1
  <2>3. Nic(p)
    BY <1>4, <1>11, <2>2
  <2>4. To(p)' = To(p) + count /\ 0 <= To(p)
    BY <1>7, <2>3
  <2>5. CASE q = pr.end
    <3>1. From(q)' = count
      BY <1>7, <2>5
    <3> QED
      BY <1>7, <1>8, <2>4, <3>1
  <2>6. CASE q # pr.end
    <3>1. Nic(q)
      BY <1>4, <1>11, <2>6
    <3>2. From(q) <= To(p) /\ From(q)' = From(q) + count
      BY <1>7, <2>1, <2>3, <3>1 DEF FragmentInv
    <3> QED
      BY <1>7, <1>8, <2>4, <3>2
  <2> QED
    BY <2>5, <2>6
<1> QED
  BY <1>9, <1>10, <1>11 DEF FragmentInv, PacketIndexes

\* Completing a packet leaves what the NIC has alone, and takes one packet from
\* those that hold fragments.
LEMMA FragmentComplete ==
  ASSUME TypeInv, RingInv, FragmentInv, CompletePacket
  PROVE  /\ FragmentInv'
         /\ \A p \in PacketIndexes : Nic(p) => p # pr.next
         /\ \A p \in PacketIndexes, f \in FragmentIndexes : Owns(p, f)' <=> Owns(p, f)
         /\ \A p \in PacketIndexes, f \in FragmentIndexes :
              Holds(p, f)' <=> p # pr.next /\ Holds(p, f)
<1>1. /\ Filled' = Filled - 1 /\ Back' = Back - 1 /\ Back > 0
      /\ \A p \in PacketIndexes \ {pr.next} : Offset(p) > 0 /\ Offset(p)' = Offset(p) - 1
      /\ \A p \in PacketIndexes : p = pr.next => Offset(p) = 0 /\ Offset(p)' = PacketSlots - 1
  BY RingCompleted
<1>2. \A p \in PacketIndexes \ {pr.next} : packets'[p] = packets[p]
  BY CarriedCompleted
<1>3. fr' = fr
  BY PacketCompleted
<1>4. /\ Filled \in Nat /\ Filled <= PacketSlots - 1 /\ PacketSlots \in Nat /\ Back \in Nat
      /\ \A p \in PacketIndexes : Offset(p) \in Nat
  BY Rings, SizesAreNumbers DEF PacketIndexes
<1>5. /\ \A f \in FragmentIndexes : Behind(f)' = Behind(f)
      /\ Behind(fr.begin)' = Behind(fr.begin)
      /\ \A p \in PacketIndexes \ {pr.next} : From(p)' = From(p) /\ To(p)' = To(p)
      /\ \A p \in PacketIndexes \ {pr.next} : FragmentsOf(p)' = FragmentsOf(p)
  BY <1>2, <1>3 DEF Behind, From, To, FragmentsOf
<1>6. \A p \in PacketIndexes : Offset(p)' < Filled' <=> p # pr.next /\ Offset(p) < Filled
  BY <1>1, <1>4
<1>7. \A p \in PacketIndexes : Nic(p) => p # pr.next
  BY <1>1, <1>4 DEF Nic
<1>8. \A p \in PacketIndexes : Nic(p)' <=> Nic(p)
  <2>1. \A p \in PacketIndexes \ {pr.next} : Back' <= Offset(p)' <=> Back <= Offset(p)
    BY <1>1, <1>4
  <2> QED
    BY <1>6, <1>7, <2>1 DEF Nic
<1>9. \A p, q \in PacketIndexes \ {pr.next} : Offset(p)' < Offset(q)' <=> Offset(p) < Offset(q)
  BY <1>1, <1>4
<1>10. \A p \in PacketIndexes : Offset(p)' < Filled' => (packets'[p].ignore <=> packets'[p].count = 0)
  BY <1>2, <1>6 DEF FragmentInv
<1>11. \A p \in PacketIndexes : Nic(p)' =>
         packets'[p].count <= From(p)' /\ From(p)' <= Behind(fr.begin)'
  BY <1>2, <1>5, <1>7, <1>8 DEF FragmentInv
<1>12. \A p, q \in PacketIndexes : Nic(p)' /\ Nic(q)' /\ Offset(p)' < Offset(q)' => From(q)' <= To(p)'
  BY <1>5, <1>7, <1>8, <1>9 DEF FragmentInv
<1>13. \A p \in PacketIndexes, f \in FragmentIndexes : Owns(p, f)' <=> Owns(p, f)
  BY <1>5, <1>7, <1>8 DEF Owns
<1>14. \A p \in PacketIndexes, f \in FragmentIndexes : Holds(p, f)' <=> p # pr.next /\ Holds(p, f)
  BY <1>5, <1>6 DEF Holds
<1> QED
  BY <1>7, <1>10, <1>11, <1>12, <1>13, <1>14 DEF FragmentInv, PacketIndexes

LEMMA FragmentReturn ==
  ASSUME TypeInv, RingInv, FragmentInv, NEW k \in 0 .. PacketSlots, Return(k), packets' = packets
  PROVE  /\ FragmentInv'
         /\ \A p \in PacketIndexes, f \in FragmentIndexes :
              Owns(p, f)' => Owns(p, f) /\ fragments'[f] = fragments[f]
         /\ \A p \in PacketIndexes, f \in FragmentIndexes : Holds(p, f)' <=> Holds(p, f)
<1>1. /\ fr'.end = fr.end
      /\ \/ fr'.begin = fr.begin /\ \A p \in Returned(k) : packets[p].count = 0
         \/ \E last \in Returned(k) :
              /\ packets[last].count > 0
              /\ fr'.begin = Advance(FragmentSlots, packets[last].index, packets[last].count)
              /\ \A q \in Returned(k) : packets[q].count > 0 =>
                   Count(PacketSlots, pr.begin, q) <= Count(PacketSlots, pr.begin, last)
      /\ \A f \in FragmentIndexes :
              (\A p \in Returned(k) : f \notin FragmentsOf(p)) => fragments'[f] = fragments[f]
  BY ReturnIs
<1>2. /\ Back' = Back + k /\ Filled' = Filled /\ Back + k <= Filled
      /\ \A p \in PacketIndexes : Offset(p)' = Offset(p)
      /\ \A p \in PacketIndexes : p \in Returned(k) <=> Back <= Offset(p) /\ Offset(p) < Back + k
      /\ k \in Nat
  BY RingReturned
<1>3. /\ \A f \in FragmentIndexes : Behind(f)' = Behind(f)
      /\ \A p \in PacketIndexes : From(p)' = From(p) /\ To(p)' = To(p)
  BY <1>1, ExtentsSame
<1>4. \A p \in PacketIndexes, f \in FragmentIndexes : Holds(p, f)' <=> Holds(p, f)
  BY <1>2 DEF Holds, FragmentsOf
<1>5. /\ Back \in Nat /\ Filled \in Nat /\ Behind(fr.begin) \in Nat
      /\ \A p \in PacketIndexes :
           /\ Offset(p) \in Nat /\ From(p) \in Nat /\ To(p) \in Int /\ packets[p].count \in Nat
           /\ To(p) = From(p) - packets[p].count
  BY Rings, ExtentTypes
<1>6. Returned(k) \subseteq PacketIndexes
  BY DEF Returned
<1>7. /\ \A p \in PacketIndexes : Nic(p)' <=> Back + k <= Offset(p) /\ Offset(p) < Filled
      /\ \A p \in PacketIndexes : Nic(p)' => Nic(p)
      /\ \A p \in Returned(k) : Nic(p)
  BY <1>2, <1>5, <1>6 DEF Nic
<1>8. \/ Behind(fr.begin)' = Behind(fr.begin) /\ \A p \in Returned(k) : packets[p].count = 0
      \/ \E last \in Returned(k) :
           /\ Behind(fr.begin)' = To(last)
           /\ \A q \in Returned(k) : packets[q].count > 0 => Offset(q) <= Offset(last)
  <2>1. CASE fr'.begin = fr.begin /\ \A p \in Returned(k) : packets[p].count = 0
    BY <1>1, <2>1 DEF Behind
  <2>2. CASE \E last \in Returned(k) :
              /\ packets[last].count > 0
              /\ fr'.begin = Advance(FragmentSlots, packets[last].index, packets[last].count)
              /\ \A q \in Returned(k) : packets[q].count > 0 =>
                   Count(PacketSlots, pr.begin, q) <= Count(PacketSlots, pr.begin, last)
    <3>1. PICK last \in Returned(k) :
              /\ packets[last].count > 0
              /\ fr'.begin = Advance(FragmentSlots, packets[last].index, packets[last].count)
              /\ \A q \in Returned(k) : packets[q].count > 0 =>
                   Count(PacketSlots, pr.begin, q) <= Count(PacketSlots, pr.begin, last)
      BY <2>2
    <3>2. last \in PacketIndexes /\ Nic(last)
      BY <1>6, <1>7
    <3>3. packets[last].count <= From(last)
      BY <3>2 DEF FragmentInv
    <3>4. Behind(fr.begin)' = To(last)
      <4> DEFINE i == packets[last].index
                 c == packets[last].count
                 e == fr.end
                 s == FragmentSlots
      <4>1. /\ i \in 0 .. s - 1 /\ e \in 0 .. s - 1 /\ c \in 0 .. s - 1 /\ s \in Nat \ {0}
        BY <3>2, ExtentTypes, Rings, SizesAreNumbers DEF FragmentIndexes
      <4>2. /\ Behind(fr.begin)' = Count(s, Advance(s, i, c), e)
            /\ From(last) = Count(s, i, e) /\ To(last) = Count(s, i, e) - c
            /\ c <= Count(s, i, e)
        BY <1>1, <3>1, <3>3 DEF Behind, From, To
      <4> HIDE DEF i, c, e, s
      <4>3. Count(s, Advance(s, i, c), e) = Count(s, i, e) - c
        BY <4>1, <4>2, CountFromAdvanced
      <4> QED
        BY <4>2, <4>3
    <3>5. ASSUME NEW q \in Returned(k), packets[q].count > 0 PROVE Offset(q) <= Offset(last)
      <4>1. Count(PacketSlots, pr.begin, q) <= Count(PacketSlots, pr.begin, last)
        BY <3>1, <3>5
      <4>2. /\ Count(PacketSlots, pr.begin, q) = Offset(q) - Back
            /\ Count(PacketSlots, pr.begin, last) = Offset(last) - Back
        BY <1>2, <1>6, <3>2, CountFromBegin
      <4> QED
        BY <1>5, <1>6, <3>2, <4>1, <4>2
    <3> QED
      BY <3>4, <3>5
  <2> QED
    BY <1>1, <2>1, <2>2
<1>9. ASSUME NEW p \in PacketIndexes, Nic(p)'
      PROVE  From(p) <= Behind(fr.begin)'
  <2>1. CASE Behind(fr.begin)' = Behind(fr.begin)
    BY <1>7, <1>9, <2>1 DEF FragmentInv
  <2>2. CASE \E last \in Returned(k) : Behind(fr.begin)' = To(last)
    <3>1. PICK last \in Returned(k) : Behind(fr.begin)' = To(last)
      BY <2>2
    <3>2. last \in PacketIndexes /\ Nic(last) /\ Offset(last) < Back + k
      BY <1>2, <1>6, <1>7
    <3>3. Offset(last) < Offset(p)
      BY <1>2, <1>5, <1>7, <1>9, <3>2
    <3>4. From(p) <= To(last)
      BY <1>7, <1>9, <3>2, <3>3 DEF FragmentInv
    <3> QED
      BY <3>1, <3>4
  <2> QED
    BY <1>8, <2>1, <2>2
<1>10. FragmentInv'
  <2>1. \A p \in PacketIndexes : Offset(p)' < Filled' => (packets'[p].ignore <=> packets'[p].count = 0)
    BY <1>2 DEF FragmentInv
  <2>2. \A p \in PacketIndexes : Nic(p)' =>
          packets'[p].count <= From(p)' /\ From(p)' <= Behind(fr.begin)'
    BY <1>3, <1>7, <1>9 DEF FragmentInv
  <2>3. \A p, q \in PacketIndexes : Nic(p)' /\ Nic(q)' /\ Offset(p)' < Offset(q)' =>
          From(q)' <= To(p)'
    BY <1>2, <1>3, <1>7 DEF FragmentInv
  <2> QED
    BY <2>1, <2>2, <2>3 DEF FragmentInv, PacketIndexes
<1>11. ASSUME NEW p \in PacketIndexes, NEW f \in FragmentIndexes, Owns(p, f)'
       PROVE  Owns(p, f) /\ fragments'[f] = fragments[f]
  <2>1. Owns(p, f)
    BY <1>3, <1>7, <1>11 DEF Owns
  <2>2. Back + k <= Offset(p)
    BY <1>7, <1>11 DEF Owns
  <2>3. ASSUME NEW q \in Returned(k), f \in FragmentsOf(q) PROVE FALSE
    <3>1. q \in PacketIndexes /\ Offset(q) < Back + k /\ Nic(q)
      BY <1>2, <1>6, <1>7
    <3>2. Owns(q, f)
      BY <2>3, <3>1, OwnsIs
    <3>3. p = q
      BY <2>1, <3>1, <3>2, OneOwner
    <3> QED
      BY <1>2, <1>5, <2>2, <3>1, <3>3
  <2> QED
    BY <1>1, <2>1, <2>3
<1> QED
  BY <1>4, <1>10, <1>11

LEMMA FragmentStep ==
  ASSUME TypeInv, ChainInv, RingInv, FragmentInv, [Next]_vars
  PROVE  FragmentInv'
<1>1. CASE UNCHANGED <<pr, fr, packets>>
  <2>1. /\ Back' = Back /\ Filled' = Filled /\ \A p \in PacketIndexes : Offset(p)' = Offset(p)
    BY <1>1, RingSame
  <2>2. /\ Behind(fr.begin)' = Behind(fr.begin)
        /\ \A p \in PacketIndexes : From(p)' = From(p) /\ To(p)' = To(p)
    BY <1>1 DEF Behind, From, To
  <2> QED
    BY <1>1, <2>1, <2>2 DEF FragmentInv, Nic, PacketIndexes
<1>2. CASE Start
  <2>1. Filled' = 0 /\ TypeInv'
    BY <1>2, RingStarted, LifeTypes
  <2>2. (\A p \in PacketIndexes : Offset(p) \in PacketIndexes)'
    BY <2>1, Rings, PTL
  <2>3. PacketIndexes \subseteq Nat
    BY Rings
  <2>4. \A p, q \in PacketIndexes : ~(Offset(p)' < Filled') /\ ~(Offset(q)' < Filled')
    BY <2>1, <2>2, <2>3 DEF PacketIndexes
  <2> QED
    BY <2>4 DEF FragmentInv, Nic, PacketIndexes
<1>3. CASE Cancel \/ YieldToNetAdapter
  <2>1. PICK k \in 0 .. PacketSlots : Return(k)
    BY <1>3 DEF Cancel, YieldToNetAdapter
  <2>2. packets' = packets
    BY <1>3 DEF Cancel, YieldToNetAdapter
  <2> QED
    BY <2>1, <2>2, FragmentReturn
<1>4. UNCHANGED vars \/ (\E n \in Nbls : Send(n) \/ QueueNetBufferList(n)) \/ Stop \/ NicNotifies
        \/ TransmitNbls \/ TransmitNblsStopping \/ SegmentNetBufferList \/ StopTranslating \/ EndPoll
      => UNCHANGED <<pr, fr, packets>>
  BY DEF vars, rings, Send, QueueNetBufferList, Stop, NicNotifies, TransmitNbls,
         TransmitNblsStopping, SegmentNetBufferList, StopTranslating, EndPoll
<1> QED
  BY <1>1, <1>2, <1>3, <1>4, FragmentPut, FragmentComplete DEF Next, Poll

-----------------------------------------------------------------------------
(* What the fragments point to.                                             *)

\* Who owns which fragments when a packet is put.
LEMMA OwnsPut ==
  ASSUME TypeInv, ChainInv, RingInv, FragmentInv, currentNbl # <<>>, ~PacketRingFull,
         NEW ignore \in BOOLEAN, NEW count \in FragmentIndexes, PutPacket(ignore, count),
         count <= AvailableFragments
  PROVE  /\ \A p \in PacketIndexes \ {pr.end}, f \in FragmentIndexes : Owns(p, f)' <=> Owns(p, f)
         /\ \A p \in PacketIndexes, f \in FragmentIndexes : p = pr.end =>
              (Owns(p, f)' <=> f \in Elements(FragmentSlots, fr.end, count))
         /\ \A p \in PacketIndexes, f \in FragmentIndexes :
              Owns(p, f) => p # pr.end /\ f \notin Elements(FragmentSlots, fr.end, count)
<1>1. /\ \A p \in PacketIndexes : Nic(p)' <=> Nic(p) \/ p = pr.end
      /\ \A p \in PacketIndexes : Nic(p) => p # pr.end
  BY NicPut
<1>2. /\ \A p \in PacketIndexes : Nic(p) =>
           From(p)' = From(p) + count /\ To(p)' = To(p) + count /\ 0 <= To(p)
      /\ \A p \in PacketIndexes : p = pr.end => From(p)' = count /\ To(p)' = 0
      /\ \A f \in FragmentIndexes :
           f \in Elements(FragmentSlots, fr.end, count) <=> 0 < Behind(f)' /\ Behind(f)' <= count
      /\ \A f \in FragmentIndexes : Behind(f)' = Behind(f) + count \/ Behind(f)' < count
      /\ \A f \in FragmentIndexes :
           Behind(f) <= Behind(fr.begin) => Behind(f)' = Behind(f) + count
      /\ count \in Nat
  BY FragmentsPut
<1>3. /\ \A p \in PacketIndexes : From(p) \in Nat /\ To(p) \in Int /\ Offset(p) \in Nat
      /\ \A f \in FragmentIndexes : Behind(f) \in Nat
      /\ Behind(fr.begin) \in Nat /\ Filled \in Nat
  BY ExtentTypes, Rings
<1>4. ASSUME NEW p \in PacketIndexes, NEW f \in FragmentIndexes, Owns(p, f)
      PROVE  /\ p # pr.end /\ f \notin Elements(FragmentSlots, fr.end, count)
             /\ Owns(p, f)'
  <2>1. Nic(p) /\ To(p) < Behind(f) /\ Behind(f) <= From(p)
    BY <1>4 DEF Owns
  <2>2. From(p) <= Behind(fr.begin)
    BY <2>1 DEF FragmentInv
  <2>3. Behind(f)' = Behind(f) + count
    <3>1. Behind(f) <= Behind(fr.begin)
      BY <1>3, <2>1, <2>2
    <3> QED
      BY <1>2, <3>1
  <2>4. From(p)' = From(p) + count /\ To(p)' = To(p) + count /\ 0 <= To(p) /\ p # pr.end
    BY <1>1, <1>2, <2>1
  <2>5. Nic(p)'
    BY <1>1, <2>1
  <2>6. To(p)' < Behind(f)' /\ Behind(f)' <= From(p)' /\ ~(Behind(f)' <= count)
    BY <1>2, <1>3, <2>1, <2>3, <2>4
  <2> QED
    BY <1>2, <2>4, <2>5, <2>6 DEF Owns
<1>5. ASSUME NEW p \in PacketIndexes \ {pr.end}, NEW f \in FragmentIndexes, Owns(p, f)'
      PROVE  Owns(p, f)
  <2>1. Nic(p)' /\ To(p)' < Behind(f)' /\ Behind(f)' <= From(p)'
    BY <1>5 DEF Owns
  <2>2. Nic(p)
    BY <1>1, <2>1
  <2>3. From(p)' = From(p) + count /\ To(p)' = To(p) + count /\ 0 <= To(p)
    BY <1>2, <2>2
  <2>4. Behind(f)' = Behind(f) + count
    <3>1. CASE Behind(f)' < count
      <4> DEFINE x == Behind(f)'
      <4>1. x < count /\ To(p) + count < x /\ x <= From(p) + count
        BY <2>1, <2>3, <3>1
      <4>2. x \in Int
        <5>1. fr'.end \in 0 .. FragmentSlots - 1 /\ f \in 0 .. FragmentSlots - 1
          BY PacketPut DEF FragmentIndexes
        <5>2. Count(FragmentSlots, f, fr'.end) \in 0 .. FragmentSlots - 1
          BY <5>1, SizesAreNumbers, CountIs
        <5> QED
          BY <5>2 DEF Behind
      <4> HIDE DEF x
      <4> QED
        BY <1>2, <1>3, <2>3, <4>1, <4>2
    <3> QED
      BY <1>2, <3>1
  <2>5. To(p) < Behind(f) /\ Behind(f) <= From(p)
    BY <1>2, <1>3, <2>1, <2>3, <2>4
  <2> QED
    BY <2>2, <2>5 DEF Owns
<1>6. ASSUME NEW p \in PacketIndexes, NEW f \in FragmentIndexes, p = pr.end
      PROVE  Owns(p, f)' <=> f \in Elements(FragmentSlots, fr.end, count)
  <2>1. Nic(p)' /\ From(p)' = count /\ To(p)' = 0
    BY <1>1, <1>2, <1>6
  <2> QED
    BY <1>2, <2>1 DEF Owns
<1> QED
  BY <1>4, <1>5, <1>6

\* The fragments of the packets that have come back and that no drain has reached.
BehindTheDrain == UNION {FragmentsOf(p) : p \in ReturnedPackets}

LEMMA HeldByNicOrReturned ==
  ASSUME TypeInv, FragmentInv, NEW p \in PacketIndexes, NEW f \in FragmentIndexes, Holds(p, f)
  PROVE  Owns(p, f) \/ f \in BehindTheDrain
<1>1. /\ pr.next \in 0 .. PacketSlots - 1 /\ Back \in 0 .. PacketSlots /\ PacketSlots \in Nat \ {0}
      /\ Offset(p) \in Int /\ Back \in Int
  BY Rings, SizesAreNumbers DEF PacketIndexes
<1>2. Elements(PacketSlots, pr.next, Back)
        = {q \in 0 .. PacketSlots - 1 : Count(PacketSlots, pr.next, q) < Back}
  BY <1>1, ElementsAre
<1>3. ReturnedPackets = {q \in PacketIndexes : Offset(q) < Back}
  BY <1>2 DEF ReturnedPackets, Back, Offset, PacketIndexes
<1>4. CASE Offset(p) < Back
  <2>1. p \in ReturnedPackets /\ f \in FragmentsOf(p)
    BY <1>3, <1>4 DEF Holds
  <2> QED
    BY <2>1 DEF BehindTheDrain
<1>5. CASE ~(Offset(p) < Back)
  <2>1. Nic(p) /\ f \in FragmentsOf(p)
    BY <1>1, <1>5 DEF Holds, Nic
  <2> QED
    BY <2>1, OwnsIs
<1> QED
  BY <1>4, <1>5

\* The fragments F, which the NIC does not have, go to the packet that is put.
PutInto(F) ==
  /\ F \in SUBSET FragmentIndexes
  /\ \A p \in PacketIndexes \ {pr.end}, f \in FragmentIndexes : Owns(p, f)' <=> Owns(p, f)
  /\ \A p \in PacketIndexes, f \in FragmentIndexes : p = pr.end => (Owns(p, f)' <=> f \in F)
  /\ \A p \in PacketIndexes, f \in FragmentIndexes : Owns(p, f) => p # pr.end /\ f \notin F
  /\ \A p \in PacketIndexes \ {pr.end}, f \in FragmentIndexes : Holds(p, f)' <=> Holds(p, f)
  /\ \A p \in PacketIndexes, f \in FragmentIndexes : p = pr.end => (Holds(p, f)' <=> f \in F)
  /\ \A p \in PacketIndexes, f \in FragmentIndexes : Holds(p, f) => p # pr.end
  /\ \A p \in PacketIndexes \ {pr.end} : packets'[p] = packets[p]
  /\ pr.end \in PacketIndexes
  /\ packets'[pr.end].nb = Bytes(CurrentNbl, CurrentNetBuffer)

LEMMA PutSome ==
  ASSUME TypeInv, ChainInv, RingInv, FragmentInv, currentNbl # <<>>,
         ~PacketRingFull, NEW ignore \in BOOLEAN, NEW count \in FragmentIndexes,
         PutPacket(ignore, count), count <= AvailableFragments
  PROVE  PutInto(Elements(FragmentSlots, fr.end, count))
<1> DEFINE F == Elements(FragmentSlots, fr.end, count)
<1>1. /\ \A p \in PacketIndexes \ {pr.end}, f \in FragmentIndexes : Owns(p, f)' <=> Owns(p, f)
      /\ \A p \in PacketIndexes, f \in FragmentIndexes : p = pr.end => (Owns(p, f)' <=> f \in F)
      /\ \A p \in PacketIndexes, f \in FragmentIndexes : Owns(p, f) => p # pr.end /\ f \notin F
  BY OwnsPut
<1>2. F \in SUBSET FragmentIndexes
  <2>1. /\ fr.end \in 0 .. FragmentSlots - 1 /\ count \in 0 .. FragmentSlots
    BY Rings, SizesAreNumbers DEF FragmentIndexes
  <2>2. F = {j \in 0 .. FragmentSlots - 1 : Count(FragmentSlots, fr.end, j) < count}
    BY <2>1, SizesAreNumbers, ElementsAre
  <2> QED
    BY <2>2 DEF FragmentIndexes
<1>3. /\ Filled' = Filled + 1
      /\ \A p \in PacketIndexes : Offset(p)' = Offset(p)
      /\ \A p \in PacketIndexes : Offset(p) < Filled + 1 <=> Offset(p) < Filled \/ p = pr.end
      /\ \A p \in PacketIndexes : Offset(p) < Filled => p # pr.end
      /\ pr.end \in PacketIndexes
  BY RingPut
<1>5. /\ \A p \in PacketIndexes \ {pr.end} : packets'[p] = packets[p]
      /\ packets'[pr.end].index = fr.end /\ packets'[pr.end].count = count
      /\ packets'[pr.end].nb = Bytes(CurrentNbl, CurrentNetBuffer)
  BY PacketPut
<1>6. /\ \A p \in PacketIndexes \ {pr.end} : FragmentsOf(p)' = FragmentsOf(p)
      /\ \A p \in PacketIndexes : p = pr.end => FragmentsOf(p)' = F
  BY <1>5 DEF FragmentsOf
<1> HIDE DEF F
<1>7. /\ \A p \in PacketIndexes \ {pr.end}, f \in FragmentIndexes : Holds(p, f)' <=> Holds(p, f)
      /\ \A p \in PacketIndexes, f \in FragmentIndexes : p = pr.end => (Holds(p, f)' <=> f \in F)
      /\ \A p \in PacketIndexes, f \in FragmentIndexes : Holds(p, f) => p # pr.end
  BY <1>3, <1>6 DEF Holds
<1>8. PutInto(F)
  BY <1>1, <1>2, <1>3, <1>5, <1>7 DEF PutInto
<1> QED
  BY <1>8 DEF F

\* The bytes as they are, or one bounce buffer, which may replace another.
PutBytes(F) ==
  /\ \A f \in F : fragments'[f] = packets'[pr.end].nb
  /\ fragmentContext' = fragmentContext /\ content' = content /\ free' = free
  /\ over' = over /\ lost' = lost
PutBuffer(F, g, b) ==
  /\ F = {g} /\ fragments'[g] = b /\ fragmentContext' = [fragmentContext EXCEPT ![g] = b]
  /\ content' = [content EXCEPT ![b] = packets'[pr.end].nb] /\ free' = free \ {b}
  /\ lost' = lost \cup ({fragmentContext[g]} \ {Nothing})
  /\ over \subseteq over' /\ (g \in BehindTheDrain => pr.end \in over')
PutWith(F) ==
  /\ PutInto(F)
  /\ \A f \in FragmentIndexes \ F : fragments'[f] = fragments[f]
  /\ PutBytes(F) \/ \E b \in free : \E g \in FragmentIndexes : PutBuffer(F, g, b)

\* The three ways to put a packet.
LEMMA PutFragments ==
  ASSUME TypeInv, ChainInv, RingInv, FragmentInv, MapNetBuffer \/ BounceNetBuffer \/ IgnoreNetBuffer
  PROVE  \E F \in SUBSET FragmentIndexes : PutWith(F)
<1>1. currentNbl # <<>> /\ ~PacketRingFull
  BY Puts
<1>3. ASSUME NEW ignore \in BOOLEAN, NEW count \in FragmentIndexes, PutPacket(ignore, count),
             count <= AvailableFragments
      PROVE  PutInto(Elements(FragmentSlots, fr.end, count))
  BY <1>1, <1>3, PutSome
<1>4. CASE MapNetBuffer
  <2> DEFINE k == CurrentKind.fragments
             F == Elements(FragmentSlots, fr.end, k)
             nb == Bytes(CurrentNbl, CurrentNetBuffer)
  <2>1. k \in FragmentIndexes /\ k <= AvailableFragments
    BY <1>4, PutCounts
  <2>2. PutPacket(FALSE, k)
    BY <1>4 DEF MapNetBuffer
  <2>3. /\ fragments' = [f \in DOMAIN fragments |-> IF f \in F THEN nb ELSE fragments[f]]
        /\ fragmentContext' = fragmentContext /\ content' = content /\ free' = free
        /\ over' = over /\ lost' = lost
    BY <1>4 DEF MapNetBuffer, pool
  <2> HIDE DEF k, nb
  <2>4. F = Elements(FragmentSlots, fr.end, k)
    OBVIOUS
  <2> HIDE DEF F
  <2>5. PutInto(F)
    BY <1>3, <2>1, <2>2, <2>4
  <2>6. packets'[pr.end].nb = nb /\ F \in SUBSET FragmentIndexes
    BY <2>5 DEF nb, PutInto
  <2>7. DOMAIN fragments = FragmentIndexes
    BY DEF TypeInv
  <2>8. /\ \A f \in FragmentIndexes \ F : fragments'[f] = fragments[f]
        /\ \A f \in F : fragments'[f] = packets'[pr.end].nb
    BY <2>3, <2>6, <2>7
  <2> QED
    BY <2>3, <2>5, <2>6, <2>8 DEF PutWith, PutBytes
<1>5. CASE BounceNetBuffer
  <2> DEFINE b == CHOOSE b \in free : TRUE
             nb == Bytes(CurrentNbl, CurrentNetBuffer)
             g == fr.end
             F == {fr.end}
             k == 1
  <2>1. k \in FragmentIndexes /\ k <= AvailableFragments /\ PutPacket(FALSE, k)
    BY <1>5, PutCounts DEF BounceNetBuffer
  <2>2. /\ free # {} /\ free' = free \ {b} /\ content' = [content EXCEPT ![b] = nb]
        /\ fragments' = [fragments EXCEPT ![g] = b]
        /\ fragmentContext' = [fragmentContext EXCEPT ![g] = b]
    BY <1>5 DEF BounceNetBuffer
  <2>11. /\ lost' = lost \cup ({fragmentContext[g]} \ {Nothing})
         /\ over \subseteq over' /\ (g \in BehindTheDrain => pr.end \in over')
    BY <1>5 DEF BounceNetBuffer, BehindTheDrain
  <2>3. b \in free
    BY <2>2
  <2>4. F = Elements(FragmentSlots, fr.end, k)
    <3>1. g \in 0 .. FragmentSlots - 1
      BY Rings DEF FragmentIndexes
    <3>2. 0 \in 0 .. FragmentSlots /\ FragmentSlots \in Nat \ {0}
      BY SizesAreNumbers
    <3>3. Advance(FragmentSlots, g, 0) = IF g + 0 < FragmentSlots THEN g + 0 ELSE g + 0 - FragmentSlots
      <4> HIDE DEF g
      <4> QED
        BY <3>1, <3>2, AdvanceIs
    <3>4. Advance(FragmentSlots, g, 0) = g
      <4> HIDE DEF g
      <4> QED
        BY <3>1, <3>2, <3>3
    <3>5. 0 .. k - 1 = {0}
      OBVIOUS
    <3> QED
      BY <3>4, <3>5 DEF Elements
  <2>12. g \in FragmentIndexes
    BY Rings
  <2> HIDE DEF b, nb, k
  <2> DEFINE G == {g}
  <2>5. G = Elements(FragmentSlots, fr.end, k)
    BY <2>4
  <2> HIDE DEF G, g
  <2>6. PutInto(G)
    BY <1>3, <2>1, <2>5
  <2>7. packets'[pr.end].nb = nb
    BY <2>6 DEF nb, PutInto
  <2>8. g \in G /\ G = {g} /\ G \in SUBSET FragmentIndexes
    BY <2>12 DEF G
  <2>9. /\ \A f \in FragmentIndexes \ G : fragments'[f] = fragments[f]
        /\ fragments'[g] = b
    BY <2>2, <2>8, <2>12 DEF TypeInv
  <2>10. content' = [content EXCEPT ![b] = packets'[pr.end].nb]
    BY <2>2, <2>7
  <2>13. PutBuffer(G, g, b)
    BY <2>2, <2>8, <2>9, <2>10, <2>11 DEF PutBuffer
  <2> QED
    BY <2>3, <2>6, <2>8, <2>9, <2>12, <2>13 DEF PutWith
<1>6. CASE IgnoreNetBuffer
  <2> DEFINE k == 0
             F == {}
  <2>1. k \in FragmentIndexes /\ k <= AvailableFragments /\ PutPacket(TRUE, k)
    BY <1>6, PutCounts DEF IgnoreNetBuffer
  <2>2. /\ fragments' = fragments /\ fragmentContext' = fragmentContext /\ content' = content
        /\ free' = free /\ over' = over /\ lost' = lost
    BY <1>6 DEF IgnoreNetBuffer, pool
  <2>3. F = Elements(FragmentSlots, fr.end, k)
    <3>1. 0 .. k - 1 = {}
      OBVIOUS
    <3> QED
      BY <3>1 DEF Elements
  <2> HIDE DEF k, F
  <2>4. PutInto(F)
    BY <1>3, <2>1, <2>3
  <2>5. F \in SUBSET FragmentIndexes /\ \A f \in F : fragments'[f] = packets'[pr.end].nb
    BY DEF F
  <2> QED
    BY <2>2, <2>4, <2>5 DEF PutWith, PutBytes
<1> QED
  BY <1>4, <1>5, <1>6

LEMMA DataSame ==
  ASSUME DataInv, UNCHANGED <<packets, fragmentContext, content, over>>,
         \A p \in PacketIndexes, f \in FragmentIndexes :
           Owns(p, f)' => Owns(p, f) /\ fragments'[f] = fragments[f],
         \A p \in PacketIndexes, f \in FragmentIndexes : Holds(p, f)' => Holds(p, f)
  PROVE  DataInv'
<1>1. ASSUME NEW p \in PacketIndexes, NEW f \in FragmentIndexes, p \notin over', Owns(p, f)'
      PROVE  Describes(f, p)'
  <2>1. Describes(f, p) /\ fragments'[f] = fragments[f]
    BY <1>1 DEF DataInv
  <2> QED
    BY <2>1 DEF Describes, PacketIndexes
<1> QED
  BY <1>1 DEF DataInv, PacketIndexes, FragmentIndexes

LEMMA DataPut ==
  ASSUME TypeInv, ChainInv, RingInv, FragmentInv, BufferInv, DataInv,
         MapNetBuffer \/ BounceNetBuffer \/ IgnoreNetBuffer
  PROVE  DataInv'
<1>1. PICK F \in SUBSET FragmentIndexes : PutWith(F)
  BY PutFragments
<1>2. /\ content \in [Buffers -> Extents \cup {Nothing}] /\ free \in SUBSET Buffers
      /\ DOMAIN fragmentContext = FragmentIndexes
  BY DEF TypeInv
<1>3. /\ \A p \in PacketIndexes \ {pr.end}, f \in FragmentIndexes : Owns(p, f)' <=> Owns(p, f)
      /\ \A p \in PacketIndexes, f \in FragmentIndexes : p = pr.end => (Owns(p, f)' <=> f \in F)
      /\ \A p \in PacketIndexes, f \in FragmentIndexes : Owns(p, f) => p # pr.end /\ f \notin F
      /\ \A p \in PacketIndexes \ {pr.end}, f \in FragmentIndexes : Holds(p, f)' <=> Holds(p, f)
      /\ \A p \in PacketIndexes, f \in FragmentIndexes : p = pr.end => (Holds(p, f)' <=> f \in F)
      /\ \A p \in PacketIndexes \ {pr.end} : packets'[p] = packets[p]
      /\ pr.end \in PacketIndexes
  BY <1>1 DEF PutWith, PutInto
<1>4. /\ \A f \in FragmentIndexes \ F : fragments'[f] = fragments[f]
      /\ PutBytes(F) \/ \E b \in free : \E g \in FragmentIndexes : PutBuffer(F, g, b)
  BY <1>1 DEF PutWith
<1>5. /\ over \subseteq over'
      /\ \A f \in FragmentIndexes \ F : fragmentContext'[f] = fragmentContext[f]
      /\ \A b \in Buffers \ free : content'[b] = content[b]
  <2>1. CASE PutBytes(F)
    BY <2>1 DEF PutBytes
  <2>2. CASE \E b \in free : \E g \in FragmentIndexes : PutBuffer(F, g, b)
    <3>1. PICK b \in free : \E g \in FragmentIndexes : PutBuffer(F, g, b)
      BY <2>2
    <3>2. PICK g \in FragmentIndexes : PutBuffer(F, g, b)
      BY <3>1
    <3>3. /\ over \subseteq over' /\ F = {g}
          /\ fragmentContext' = [fragmentContext EXCEPT ![g] = b]
          /\ content' = [content EXCEPT ![b] = packets'[pr.end].nb]
      BY <3>2 DEF PutBuffer
    <3> QED
      BY <1>2, <3>3
  <2> QED
    BY <1>4, <2>1, <2>2
<1>6. ASSUME NEW p \in PacketIndexes, NEW f \in FragmentIndexes, p \notin over', Owns(p, f)'
      PROVE  Describes(f, p)'
  <2>1. CASE p # pr.end
    <3>1. Owns(p, f) /\ f \notin F /\ packets'[p] = packets[p] /\ p \notin over
      BY <1>3, <1>5, <1>6, <2>1
    <3>2. Describes(f, p)
      BY <3>1 DEF DataInv
    <3>3. fragments'[f] = fragments[f] /\ fragmentContext'[f] = fragmentContext[f]
      BY <1>4, <1>5, <3>1
    <3>4. CASE fragments[f] = packets[p].nb
      BY <3>1, <3>3, <3>4 DEF Describes
    <3>5. CASE /\ fragments[f] \in Buffers /\ fragmentContext[f] = fragments[f]
               /\ content[fragments[f]] = packets[p].nb
               /\ \A q \in PacketIndexes : Holds(q, f) => q = p
      <4>1. fragments[f] \notin free
        BY <3>5 DEF BufferInv
      <4>2. content'[fragments[f]] = content[fragments[f]]
        BY <1>5, <3>5, <4>1
      <4>3. \A q \in PacketIndexes : Holds(q, f)' => q = p
        BY <1>3, <3>1, <3>5
      <4> QED
        BY <3>1, <3>3, <3>5, <4>2, <4>3 DEF Describes, PacketIndexes
    <3> QED
      BY <3>2, <3>4, <3>5 DEF Describes
  <2>2. CASE p = pr.end
    <3>1. f \in F
      BY <1>3, <1>6, <2>2
    <3>2. CASE PutBytes(F)
      BY <2>2, <3>1, <3>2 DEF Describes, PutBytes
    <3>3. CASE \E b \in free : \E g \in FragmentIndexes : PutBuffer(F, g, b)
      <4>1. PICK b \in free : \E g \in FragmentIndexes : PutBuffer(F, g, b)
        BY <3>3
      <4>2. PICK g \in FragmentIndexes : PutBuffer(F, g, b)
        BY <4>1
      <4>3. /\ f = g /\ fragments'[f] = b /\ b \in Buffers
            /\ fragmentContext' = [fragmentContext EXCEPT ![f] = b]
            /\ content' = [content EXCEPT ![b] = packets'[pr.end].nb]
            /\ f \in BehindTheDrain => pr.end \in over'
        BY <1>2, <3>1, <4>2 DEF PutBuffer
      <4>4. content'[b] = packets'[pr.end].nb /\ fragmentContext'[f] = b
        BY <1>2, <4>3
      <4>5. ASSUME NEW q \in PacketIndexes, Holds(q, f)', q # pr.end PROVE FALSE
        <5>1. Holds(q, f)
          BY <1>3, <4>5
        <5>2. ~Owns(q, f)
          BY <1>3, <3>1
        <5>3. f \in BehindTheDrain
          BY <5>1, <5>2, HeldByNicOrReturned
        <5> QED
          BY <1>6, <2>2, <4>3, <5>3
      <4> QED
        BY <2>2, <4>3, <4>4, <4>5 DEF Describes, PacketIndexes
    <3> QED
      BY <1>4, <3>2, <3>3
  <2> QED
    BY <2>1, <2>2
<1> QED
  BY <1>6 DEF DataInv, PacketIndexes, FragmentIndexes

\* The context of a fragment is the buffer b from now on, and the buffer that
\* was there is lost.
LEMMA BufferReplaced ==
  ASSUME TypeInv, BufferInv, NEW g \in FragmentIndexes, NEW b \in free,
         fragmentContext' = [fragmentContext EXCEPT ![g] = b], free' = free \ {b},
         lost' = lost \cup ({fragmentContext[g]} \ {Nothing}),
         \A f \in FragmentIndexes : f # g /\ fragmentContext[f] # Nothing =>
           \E p \in PacketIndexes : Holds(p, f)',
         \E p \in PacketIndexes : Holds(p, g)'
  PROVE  BufferInv'
<1> DEFINE old == fragmentContext[g]
<1>1. /\ b \in Buffers /\ b # Nothing /\ Nothing \notin Buffers /\ lost \in SUBSET Buffers
      /\ free \in SUBSET Buffers /\ fragmentContext \in [FragmentIndexes -> Buffers \cup {Nothing}]
  BY NothingIsApart DEF TypeInv
<1>2. /\ \A f \in FragmentIndexes : fragmentContext[f] # b
      /\ b \notin lost /\ b # old
  BY <1>1 DEF BufferInv
<1>3. \A f \in FragmentIndexes : fragmentContext'[f] = IF f = g THEN b ELSE fragmentContext[f]
  BY <1>1
<1>4. lost' = lost \cup ({old} \ {Nothing}) /\ old \in Buffers \cup {Nothing}
  BY <1>1
<1>5. \A f \in FragmentIndexes : f # g /\ fragmentContext[f] # Nothing => fragmentContext[f] # old
  BY DEF BufferInv
<1>6. \A f \in FragmentIndexes : fragmentContext[f] \notin lost
  BY DEF BufferInv
<1>7. \A c \in Buffers : c \notin free <=> c \in lost \/ \E f \in FragmentIndexes : fragmentContext[f] = c
  BY DEF BufferInv
<1>8. old = fragmentContext[g]
  OBVIOUS
<1> HIDE DEF old
<1>9. \A f, h \in FragmentIndexes :
        fragmentContext'[f] = fragmentContext'[h] /\ fragmentContext'[f] # Nothing => f = h
  BY <1>2, <1>3 DEF BufferInv
<1>10. ASSUME NEW c \in Buffers
       PROVE  c \notin free' <=> c \in lost' \/ \E f \in FragmentIndexes : fragmentContext'[f] = c
  <2>1. CASE c = b
    BY <1>3, <2>1
  <2>2. CASE c = old
    <3>1. c \in lost' /\ c \notin free
      BY <1>1, <1>4, <1>7, <1>8, <2>2
    <3> QED
      BY <3>1
  <2>3. CASE c # b /\ c # old
    <3>1. c \notin free' <=> c \notin free
      BY <2>3
    <3>2. c \in lost' <=> c \in lost
      BY <1>4, <2>3
    <3>3. \A f \in FragmentIndexes : fragmentContext'[f] = c <=> fragmentContext[f] = c
      BY <1>3, <1>8, <2>3
    <3> QED
      BY <1>7, <3>1, <3>2, <3>3
  <2> QED
    BY <2>1, <2>2, <2>3
<1>11. \A f \in FragmentIndexes : fragmentContext'[f] \notin lost'
  <2>1. \A f \in FragmentIndexes : f = g => fragmentContext'[f] \notin lost'
    BY <1>2, <1>3, <1>4
  <2>2. \A f \in FragmentIndexes : f # g => fragmentContext'[f] \notin lost'
    BY <1>1, <1>3, <1>4, <1>5, <1>6
  <2> QED
    BY <2>1, <2>2
<1>12. \A f \in FragmentIndexes : fragmentContext'[f] # Nothing => \E p \in PacketIndexes : Holds(p, f)'
  BY <1>3
<1> QED
  BY <1>9, <1>10, <1>11, <1>12 DEF BufferInv, FragmentIndexes, PacketIndexes

LEMMA BufferPut ==
  ASSUME TypeInv, ChainInv, RingInv, FragmentInv, BufferInv,
         MapNetBuffer \/ BounceNetBuffer \/ IgnoreNetBuffer
  PROVE  BufferInv'
<1>1. PICK F \in SUBSET FragmentIndexes : PutWith(F)
  BY PutFragments
<1>2. /\ \A p \in PacketIndexes \ {pr.end}, f \in FragmentIndexes : Holds(p, f)' <=> Holds(p, f)
      /\ \A p \in PacketIndexes, f \in FragmentIndexes : p = pr.end => (Holds(p, f)' <=> f \in F)
      /\ \A p \in PacketIndexes, f \in FragmentIndexes : Holds(p, f) => p # pr.end
      /\ pr.end \in PacketIndexes
  BY <1>1 DEF PutWith, PutInto
<1>3. ASSUME NEW f \in FragmentIndexes, fragmentContext[f] # Nothing
      PROVE  \E p \in PacketIndexes : Holds(p, f)'
  <2>1. PICK p \in PacketIndexes : Holds(p, f)
    BY <1>3 DEF BufferInv
  <2> QED
    BY <1>2, <2>1
<1>4. CASE PutBytes(F)
  <2>1. UNCHANGED <<fragmentContext, free, lost>>
    BY <1>4 DEF PutBytes
  <2> QED
    BY <1>3, <2>1 DEF BufferInv, FragmentIndexes, PacketIndexes
<1>5. CASE \E b \in free : \E g \in FragmentIndexes : PutBuffer(F, g, b)
  <2>1. PICK b \in free : \E g \in FragmentIndexes : PutBuffer(F, g, b)
    BY <1>5
  <2>2. PICK g \in FragmentIndexes : PutBuffer(F, g, b)
    BY <2>1
  <2>3. /\ g \in F /\ fragmentContext' = [fragmentContext EXCEPT ![g] = b] /\ free' = free \ {b}
        /\ lost' = lost \cup ({fragmentContext[g]} \ {Nothing})
    BY <2>2 DEF PutBuffer
  <2>4. \E p \in PacketIndexes : Holds(p, g)'
    BY <1>2, <2>3
  <2> QED
    BY <1>3, <2>3, <2>4, BufferReplaced
<1> QED
  BY <1>1, <1>4, <1>5 DEF PutWith

\* The buffers that a completion gives back.
Bounced == {f \in FragmentIndexes : Holds(pr.next, f) /\ fragmentContext[f] # Nothing}

LEMMA BouncedAre ==
  ASSUME TypeInv, RingInv, FragmentInv, CompletePacket
  PROVE  /\ free' = free \cup {fragmentContext[f] : f \in Bounced}
         /\ content' = [b \in Buffers |-> IF b \in free' THEN Nothing ELSE content[b]]
         /\ \A f \in FragmentIndexes :
              fragmentContext'[f] = IF f \in Bounced THEN Nothing ELSE fragmentContext[f]
<1> DEFINE bounced == IF packets[pr.next].ignore THEN {}
                      ELSE {f \in FragmentsOf(pr.next) : fragmentContext[f] # Nothing}
<1>1. /\ free' = free \cup {fragmentContext[f] : f \in bounced}
      /\ content' = [b \in Buffers |-> IF b \in free' THEN Nothing ELSE content[b]]
      /\ fragmentContext' = [f \in DOMAIN fragmentContext |->
                               IF f \in bounced THEN Nothing ELSE fragmentContext[f]]
  BY DEF CompletePacket
<1>2. pr.next \in PacketIndexes /\ Offset(pr.next) = 0 /\ Filled > 0
  BY RingCompleted
<1>3. Offset(pr.next) < Filled
  BY <1>2, Rings DEF PacketIndexes
<1>4. \A f \in FragmentIndexes : Holds(pr.next, f) <=> f \in FragmentsOf(pr.next)
  BY <1>3 DEF Holds
<1>5. FragmentsOf(pr.next) \subseteq FragmentIndexes
  BY <1>2, FragmentsOfIn
<1>6. ASSUME packets[pr.next].ignore PROVE FragmentsOf(pr.next) = {}
  <2>1. packets[pr.next].count = 0
    BY <1>2, <1>3, <1>6 DEF FragmentInv
  <2>2. 0 .. packets[pr.next].count - 1 = {}
    BY <2>1
  <2> QED
    BY <2>2 DEF FragmentsOf, Elements
<1>7. bounced = Bounced
  <2>1. CASE packets[pr.next].ignore
    BY <1>4, <1>6, <2>1 DEF Bounced
  <2>2. CASE ~packets[pr.next].ignore
    BY <1>4, <1>5, <2>2 DEF Bounced
  <2> QED
    BY <2>1, <2>2
<1>8. DOMAIN fragmentContext = FragmentIndexes
  BY DEF TypeInv
<1> HIDE DEF bounced
<1> QED
  BY <1>1, <1>7, <1>8

LEMMA DataComplete ==
  ASSUME TypeInv, RingInv, FragmentInv, BufferInv, DataInv, CompletePacket
  PROVE  DataInv'
<1>1. /\ free' = free \cup {fragmentContext[f] : f \in Bounced}
      /\ content' = [b \in Buffers |-> IF b \in free' THEN Nothing ELSE content[b]]
      /\ \A f \in FragmentIndexes :
           fragmentContext'[f] = IF f \in Bounced THEN Nothing ELSE fragmentContext[f]
  BY BouncedAre
<1>2. /\ \A p \in PacketIndexes, f \in FragmentIndexes : Owns(p, f)' <=> Owns(p, f)
      /\ \A p \in PacketIndexes : Nic(p) => p # pr.next
      /\ \A p \in PacketIndexes, f \in FragmentIndexes :
              Holds(p, f)' <=> p # pr.next /\ Holds(p, f)
  BY FragmentComplete
<1>4. /\ fragments' = fragments /\ over' = over \ {pr.next} /\ pr.next \in PacketIndexes
      /\ \A p \in PacketIndexes \ {pr.next} : packets'[p] = packets[p]
  BY PacketCompleted, CarriedCompleted
<1>6. ASSUME NEW p \in PacketIndexes, NEW f \in FragmentIndexes, p \notin over', Owns(p, f)'
      PROVE  Describes(f, p)'
  <2>1. Owns(p, f) /\ p # pr.next
    BY <1>2, <1>6 DEF Owns
  <2>2. p \notin over /\ packets'[p] = packets[p] /\ fragments'[f] = fragments[f]
    BY <1>4, <1>6, <2>1
  <2>3. Describes(f, p)
    BY <2>1, <2>2 DEF DataInv
  <2>4. CASE fragments[f] = packets[p].nb
    BY <2>2, <2>4 DEF Describes
  <2>5. CASE /\ fragments[f] \in Buffers /\ fragmentContext[f] = fragments[f]
             /\ content[fragments[f]] = packets[p].nb
             /\ \A q \in PacketIndexes : Holds(q, f) => q = p
    <3>1. f \notin Bounced
      BY <1>4, <2>1, <2>5 DEF Bounced
    <3>2. fragmentContext'[f] = fragmentContext[f]
      BY <1>1, <3>1
    <3>3. fragments[f] \notin free
      BY <2>5 DEF BufferInv
    <3>4. \A g \in Bounced : fragmentContext[g] # fragments[f]
      BY <2>5, <3>1, NothingIsApart DEF Bounced, BufferInv
    <3>5. fragments[f] \notin free'
      BY <1>1, <3>3, <3>4
    <3>6. content'[fragments[f]] = content[fragments[f]]
      BY <1>1, <2>5, <3>5
    <3>7. \A q \in PacketIndexes : Holds(q, f)' => q = p
      BY <1>2, <2>5
    <3> QED
      BY <2>2, <2>5, <3>2, <3>6, <3>7 DEF Describes, PacketIndexes
  <2> QED
    BY <2>3, <2>4, <2>5 DEF Describes
<1> QED
  BY <1>6 DEF DataInv, PacketIndexes, FragmentIndexes

LEMMA BufferComplete ==
  ASSUME TypeInv, RingInv, FragmentInv, BufferInv, CompletePacket
  PROVE  BufferInv'
<1>1. /\ free' = free \cup {fragmentContext[f] : f \in Bounced}
      /\ \A f \in FragmentIndexes :
           fragmentContext'[f] = IF f \in Bounced THEN Nothing ELSE fragmentContext[f]
  BY BouncedAre
<1>2. \A p \in PacketIndexes, f \in FragmentIndexes : Holds(p, f)' <=> p # pr.next /\ Holds(p, f)
  BY FragmentComplete
<1>3. lost' = lost /\ lost \in SUBSET Buffers
  BY PacketCompleted DEF TypeInv
<1>4. ASSUME NEW f \in FragmentIndexes, fragmentContext'[f] # Nothing
      PROVE  \E p \in PacketIndexes : Holds(p, f)'
  <2>1. f \notin Bounced /\ fragmentContext[f] # Nothing
    BY <1>1, <1>4
  <2>2. PICK p \in PacketIndexes : Holds(p, f)
    BY <2>1 DEF BufferInv
  <2>3. p # pr.next
    BY <2>1, <2>2 DEF Bounced
  <2> QED
    BY <1>2, <2>2, <2>3
<1>5. \A f, g \in FragmentIndexes :
        fragmentContext'[f] = fragmentContext'[g] /\ fragmentContext'[f] # Nothing => f = g
  BY <1>1 DEF BufferInv
<1>6. \A f \in FragmentIndexes : fragmentContext'[f] \notin lost'
  BY <1>1, <1>3, NothingIsApart DEF BufferInv
<1>7. ASSUME NEW b \in Buffers
      PROVE  b \notin free' <=> b \in lost' \/ \E f \in FragmentIndexes : fragmentContext'[f] = b
  <2>1. b # Nothing
    BY NothingIsApart
  <2>2. ASSUME NEW f \in FragmentIndexes, fragmentContext'[f] = b PROVE b \notin free'
    <3>1. f \notin Bounced /\ fragmentContext[f] = b
      BY <1>1, <2>1, <2>2
    <3>2. b \notin free
      BY <3>1 DEF BufferInv
    <3>3. \A g \in Bounced : fragmentContext[g] # b
      BY <2>1, <3>1 DEF Bounced, BufferInv
    <3> QED
      BY <1>1, <3>2, <3>3
  <2>3. ASSUME b \in lost PROVE b \notin free'
    <3>1. b \notin free
      BY <2>3 DEF BufferInv
    <3>2. \A g \in Bounced : fragmentContext[g] # b
      BY <2>3 DEF Bounced, BufferInv
    <3> QED
      BY <1>1, <3>1, <3>2
  <2>4. ASSUME b \notin free', b \notin lost PROVE \E f \in FragmentIndexes : fragmentContext'[f] = b
    <3>1. b \notin free
      BY <1>1, <2>4
    <3>2. PICK f \in FragmentIndexes : fragmentContext[f] = b
      BY <2>4, <3>1 DEF BufferInv
    <3>3. f \notin Bounced
      BY <1>1, <2>4, <3>2
    <3> QED
      BY <1>1, <3>2, <3>3
  <2> QED
    BY <1>3, <2>2, <2>3, <2>4
<1> QED
  BY <1>4, <1>5, <1>6, <1>7 DEF BufferInv, FragmentIndexes, PacketIndexes

LEMMA BufferInit == ASSUME Init PROVE BufferInv
<1>1. free = Buffers /\ lost = {} /\ fragmentContext = [f \in FragmentIndexes |-> Nothing]
  BY DEF Init, FragmentIndexes
<1>2. \A f \in FragmentIndexes : fragmentContext[f] = Nothing
  BY <1>1
<1> QED
  BY <1>1, <1>2, NothingIsApart DEF BufferInv

LEMMA BufferSame ==
  ASSUME BufferInv, UNCHANGED <<fragmentContext, free, lost>>,
         \A p \in PacketIndexes, f \in FragmentIndexes : Holds(p, f) => Holds(p, f)'
  PROVE  BufferInv'
<1>1. \A f \in FragmentIndexes : fragmentContext'[f] # Nothing => \E p \in PacketIndexes : Holds(p, f)'
  BY DEF BufferInv
<1> QED
  BY <1>1 DEF BufferInv, FragmentIndexes, PacketIndexes

LEMMA DataStep ==
  ASSUME TypeInv, ChainInv, RingInv, LifeInv, FragmentInv, DataInv, BufferInv, [Next]_vars
  PROVE  DataInv' /\ BufferInv'
<1>1. CASE UNCHANGED <<pr, fr, packets, fragments, fragmentContext, pool>>
  <2>1. /\ Back' = Back /\ Filled' = Filled /\ \A p \in PacketIndexes : Offset(p)' = Offset(p)
        /\ UNCHANGED <<packets, fragments, fragmentContext, free, content, over, lost>>
    BY <1>1, RingSame DEF pool
  <2>2. \A p \in PacketIndexes, f \in FragmentIndexes : Owns(p, f)' <=> Owns(p, f)
    BY <1>1, <2>1 DEF Owns, Nic, Behind, From, To
  <2>3. \A p \in PacketIndexes, f \in FragmentIndexes : Holds(p, f)' <=> Holds(p, f)
    BY <1>1, <2>1 DEF Holds, FragmentsOf
  <2>4. DataInv'
    BY <2>1, <2>2, <2>3, DataSame
  <2>5. BufferInv'
    BY <2>1, <2>3, BufferSame
  <2> QED
    BY <2>4, <2>5
<1>2. CASE Start
  <2>1. Filled' = 0 /\ TypeInv'
    BY <1>2, RingStarted, LifeTypes
  <2>2. (\A p \in PacketIndexes : Offset(p) \in PacketIndexes)'
    BY <2>1, Rings, PTL
  <2>3. /\ PacketIndexes \subseteq Nat /\ \A p \in PacketIndexes : Offset(p) \in PacketIndexes
    BY Rings
  <2>4. \A p \in PacketIndexes, f \in FragmentIndexes : ~Owns(p, f)'
    BY <2>1, <2>2, <2>3 DEF Owns, Nic, PacketIndexes
  <2>5. Filled = 0 /\ UNCHANGED <<packets, fragments, fragmentContext, free, content, over, lost>>
    BY <1>2 DEF Start, LifeInv, pool
  <2>6. \A p \in PacketIndexes, f \in FragmentIndexes : ~Holds(p, f)
    <3>1. Filled = 0 /\ \A p \in PacketIndexes : Offset(p) \in Nat
      BY <2>3, <2>5
    <3>2. \A p \in PacketIndexes : ~(Offset(p) < Filled)
      BY <3>1
    <3> QED
      BY <3>2 DEF Holds
  <2>7. DataInv'
    BY <2>4 DEF DataInv, PacketIndexes, FragmentIndexes
  <2>8. BufferInv'
    BY <2>5, <2>6, BufferSame
  <2> QED
    BY <2>7, <2>8
<1>3. CASE Cancel \/ YieldToNetAdapter
  <2>1. PICK k \in 0 .. PacketSlots : Return(k)
    BY <1>3 DEF Cancel, YieldToNetAdapter
  <2>2. UNCHANGED <<packets, fragmentContext, free, content, over, lost>>
    BY <1>3 DEF Cancel, YieldToNetAdapter, pool
  <2>3. /\ \A p \in PacketIndexes, f \in FragmentIndexes :
             Owns(p, f)' => Owns(p, f) /\ fragments'[f] = fragments[f]
        /\ \A p \in PacketIndexes, f \in FragmentIndexes : Holds(p, f)' <=> Holds(p, f)
    BY <2>1, <2>2, FragmentReturn
  <2>4. DataInv'
    BY <2>2, <2>3, DataSame
  <2>5. BufferInv'
    BY <2>2, <2>3, BufferSame
  <2> QED
    BY <2>4, <2>5
<1>4. UNCHANGED vars \/ (\E n \in Nbls : Send(n) \/ QueueNetBufferList(n)) \/ Stop \/ NicNotifies
        \/ TransmitNbls \/ TransmitNblsStopping \/ SegmentNetBufferList \/ StopTranslating \/ EndPoll
      => UNCHANGED <<pr, fr, packets, fragments, fragmentContext, pool>>
  BY DEF vars, rings, Send, QueueNetBufferList, Stop, NicNotifies, TransmitNbls,
         TransmitNblsStopping, SegmentNetBufferList, StopTranslating, EndPoll
<1> QED
  BY <1>1, <1>2, <1>3, <1>4, DataPut, BufferPut, DataComplete, BufferComplete DEF Next, Poll

LEMMA ContentsInit == ASSUME Init PROVE ContentsInv
  BY FragmentInit, BufferInit DEF ContentsInv

LEMMA ContentsStep ==
  ASSUME OwnersInv, ContentsInv, [Next]_vars
  PROVE  ContentsInv'
<1>1. FragmentInv'
  BY FragmentStep DEF OwnersInv, ContentsInv
<1>2. DataInv' /\ BufferInv'
  BY DataStep DEF OwnersInv, ContentsInv
<1> QED
  BY <1>1, <1>2 DEF ContentsInv

\* The packets that the NIC has own their fragments, each its own, and describe
\* the bytes they were made of, unless they were bounced into a fragment of a
\* packet that no drain had reached; a bounce buffer that is neither in the pool
\* nor lost is noted at one fragment, which an undrained packet holds.
THEOREM TransmitContents == Spec => [](OwnersInv /\ ContentsInv)
<1>1. Init => OwnersInv /\ ContentsInv
  BY OwnersInit, ContentsInit
<1>2. OwnersInv /\ ContentsInv /\ [Next]_vars => (OwnersInv /\ ContentsInv)'
  BY OwnersStep, ContentsStep
<1> QED
  BY <1>1, <1>2, PTL DEF Spec

-----------------------------------------------------------------------------
(* The rings in the terms of the properties.                                *)

LEMMA NicPacketsAre ==
  ASSUME TypeInv, RingInv
  PROVE  NicPackets = {p \in PacketIndexes : Back <= Offset(p) /\ Offset(p) < Filled}
<1>1. /\ pr.begin \in PacketIndexes /\ pr.end \in PacketIndexes
      /\ \A p \in PacketIndexes : Offset(p) \in PacketIndexes
      /\ Back \in PacketIndexes /\ Filled \in PacketIndexes
  BY Rings
<1>2. PacketSlots \in Nat \ {0} /\ Back <= Filled
  BY SizesAreNumbers DEF RingInv
<1> DEFINE k == Count(PacketSlots, pr.begin, pr.end)
<1>3. k = Filled - Back
  BY <1>1, <1>2, CountFromBegin DEF Filled
<1>4. k \in 0 .. PacketSlots
  BY <1>1, <1>2, <1>3 DEF PacketIndexes
<1>5. pr.begin \in 0 .. PacketSlots - 1
  BY <1>1 DEF PacketIndexes
<1> HIDE DEF k
<1>6. Elements(PacketSlots, pr.begin, k)
        = {p \in 0 .. PacketSlots - 1 : Count(PacketSlots, pr.begin, p) < k}
  BY <1>2, <1>4, <1>5, ElementsAre
<1>7. ASSUME NEW p \in PacketIndexes
      PROVE  Count(PacketSlots, pr.begin, p) < k <=> Back <= Offset(p) /\ Offset(p) < Filled
  <2>1. Count(PacketSlots, pr.begin, p) = IF Back <= Offset(p) THEN Offset(p) - Back
                                          ELSE Offset(p) - Back + PacketSlots
    BY CountFromBegin
  <2> QED
    BY <1>1, <1>2, <1>3, <2>1 DEF PacketIndexes
<1>8. NicPackets = Elements(PacketSlots, pr.begin, k)
  BY DEF NicPackets, k
<1> QED
  BY <1>6, <1>7, <1>8 DEF PacketIndexes

LEMMA UndrainedAre ==
  ASSUME TypeInv
  PROVE  Undrained = {p \in PacketIndexes : Offset(p) < Filled}
<1>1. Filled \in 0 .. PacketSlots /\ pr.next \in 0 .. PacketSlots - 1 /\ PacketSlots \in Nat \ {0}
  BY Rings, SizesAreNumbers DEF PacketIndexes
<1>2. Elements(PacketSlots, pr.next, Filled)
        = {p \in 0 .. PacketSlots - 1 : Count(PacketSlots, pr.next, p) < Filled}
  BY <1>1, ElementsAre
<1>3. Undrained = Elements(PacketSlots, pr.next, Filled)
  BY DEF Undrained, Filled, Offset
<1> QED
  BY <1>2, <1>3 DEF PacketIndexes, Offset

LEMMA NicFragmentsAre ==
  ASSUME TypeInv
  PROVE  NicFragments = {f \in FragmentIndexes : 0 < Behind(f) /\ Behind(f) <= Behind(fr.begin)}
<1>1. /\ fr.begin \in 0 .. FragmentSlots - 1 /\ fr.end \in 0 .. FragmentSlots - 1
      /\ FragmentSlots \in Nat \ {0}
      /\ \A f \in FragmentIndexes : Behind(f) \in Nat
      /\ Behind(fr.begin) \in Nat
  BY Rings, SizesAreNumbers, ExtentTypes DEF FragmentIndexes
<1> DEFINE k == Behind(fr.begin)
<1>2. k \in Nat /\ k <= Count(FragmentSlots, fr.begin, fr.end)
  BY <1>1 DEF Behind
<1>3. NicFragments = Elements(FragmentSlots, fr.begin, k)
  BY DEF NicFragments, Behind
<1>4. k = Count(FragmentSlots, fr.begin, fr.end)
  BY DEF Behind
<1> HIDE DEF k
<1>5. Elements(FragmentSlots, fr.begin, k)
        = {f \in 0 .. FragmentSlots - 1 :
             /\ Count(FragmentSlots, fr.begin, fr.end) - k < Count(FragmentSlots, f, fr.end)
             /\ Count(FragmentSlots, f, fr.end) <= Count(FragmentSlots, fr.begin, fr.end)}
  BY <1>1, <1>2, ElementsBehind
<1>6. Elements(FragmentSlots, fr.begin, k)
        = {f \in FragmentIndexes : k - k < Behind(f) /\ Behind(f) <= k}
  BY <1>4, <1>5 DEF FragmentIndexes, Behind
<1>7. k - k = 0
  BY <1>2
<1> QED
  BY <1>3, <1>6, <1>7 DEF k

-----------------------------------------------------------------------------
(* Packets keep their data.                                                 *)

\* What an undrained packet was made of has not been given back.
LEMMA OwnedByTheQueue ==
  ASSUME OwnersInv, NEW p \in PacketIndexes, Offset(p) < Filled
  PROVE  packets[p].nb \in Extents /\ packets[p].nb.item.nbl \notin atOs \cup completedChain
<1>1. packets[p].nb \in Extents
  <2>1. packets[p] \in Packet
    BY Rings DEF OwnersInv
  <2>2. packets[p].nb # Nothing
    BY DEF OwnersInv, RingInv
  <2> QED
    BY <2>1, <2>2, PacketFields
<1> DEFINE n == packets[p].nb.item.nbl
<1>2. n \in Nbls
  <2>1. packets[p].nb.item \in Items
    BY <1>1 DEF Extents
  <2> QED
    BY <2>1, ItemIs
<1> HIDE DEF n
<1>3. \/ \E q \in PacketIndexes : Carries(q, n)
      \/ currentNbl # <<>> /\ Head(currentNbl).nbl = n
  BY <1>2 DEF OwnersInv, OriginInv, n
<1>4. n \in Carried \/ n \in Named(currentNbl)
  <2>1. CASE \E q \in PacketIndexes : Carries(q, n)
    BY <1>2, <2>1 DEF Carried
  <2>2. CASE currentNbl # <<>> /\ Head(currentNbl).nbl = n
    <3>1. currentNbl \in Seq(Items)
      BY ListsOfItems DEF OwnersInv
    <3> QED
      BY <2>2, <3>1, ItemsWithoutHead
  <2> QED
    BY <1>3, <2>1, <2>2
<1>5. n \notin atOs /\ n \notin completedChain
  <2>1. NblInv
    BY DEF OwnersInv
  <2>2. "os" \in NblWhere /\ "completing" \in NblWhere /\ "packets" \in NblWhere /\ "current" \in NblWhere
    BY DEF NblWhere
  <2>3. /\ "packets" # "os" /\ "packets" # "completing" /\ "current" # "os" /\ "current" # "completing"
    OBVIOUS
  <2>4. n \in Carried => n \notin NblAt["os"] /\ n \notin NblAt["completing"]
    BY <1>2, <2>1, <2>2, <2>3, OnePlace, NblPlaceOf
  <2>5. n \in Named(currentNbl) => n \notin NblAt["os"] /\ n \notin NblAt["completing"]
    BY <1>2, <2>1, <2>2, <2>3, OnePlace, NblPlaceOf
  <2> QED
    BY <1>4, <2>4, <2>5, NblPlaceOf
<1> QED
  BY <1>1, <1>5 DEF n

LEMMA DataIsKept == ASSUME OwnersInv, ContentsInv PROVE PacketsKeepTheirData
<1>1. TypeInv /\ RingInv /\ FragmentInv /\ DataInv /\ BufferInv
  BY DEF OwnersInv, ContentsInv
<1>2. ASSUME NEW p \in NicPackets, ~packets[p].ignore
      PROVE  /\ FragmentsOf(p) \subseteq NicFragments
             /\ \A q \in NicPackets \ {p} : FragmentsOf(p) \cap FragmentsOf(q) = {}
             /\ p \notin over => Payload(p) = {packets[p].nb} /\ BuffersOf(p) \cap free = {}
  <2>1. p \in PacketIndexes /\ Nic(p) /\ Offset(p) < Filled
    BY <1>1, NicPacketsAre DEF Nic
  <2>2. packets[p].nb \notin Buffers
    BY <2>1, OwnedByTheQueue, NothingIsApart
  <2>3. /\ From(p) \in Nat /\ packets[p].index \in FragmentIndexes /\ packets[p].count \in Nat
        /\ To(p) = From(p) - packets[p].count
        /\ \A f \in FragmentIndexes : Behind(f) \in Nat
        /\ Behind(fr.begin) \in Nat
    BY <1>1, <2>1, ExtentTypes
  <2>4. packets[p].count # 0 /\ packets[p].count <= From(p) /\ From(p) <= Behind(fr.begin)
    BY <1>1, <1>2, <2>1 DEF FragmentInv
  <2>5. FragmentsOf(p) = {f \in FragmentIndexes : To(p) < Behind(f) /\ Behind(f) <= From(p)}
    BY <1>1, <2>1, <2>4, FragmentsOfAre
  <2>6. \A f \in FragmentsOf(p) : f \in FragmentIndexes /\ Owns(p, f)
    BY <2>1, <2>5 DEF Owns
  <2>7. packets[p].index \in FragmentsOf(p)
    <3>1. Behind(packets[p].index) = From(p)
      BY DEF From
    <3>2. To(p) < From(p)
      BY <2>3, <2>4
    <3> QED
      BY <2>3, <2>5, <3>1, <3>2
  <2>8. FragmentsOf(p) \subseteq NicFragments
    <3>1. \A f \in FragmentIndexes : To(p) < Behind(f) /\ Behind(f) <= From(p) =>
            0 < Behind(f) /\ Behind(f) <= Behind(fr.begin)
      BY <2>3, <2>4
    <3> QED
      BY <1>1, <2>5, <3>1, NicFragmentsAre
  <2>9. ASSUME p \notin over PROVE Payload(p) = {packets[p].nb} /\ BuffersOf(p) \cap free = {}
    <3>1. \A f \in FragmentsOf(p) : f \in FragmentIndexes /\ Describes(f, p)
      BY <1>1, <2>1, <2>6, <2>9 DEF DataInv
    <3>2. \A f \in FragmentsOf(p) :
            (IF fragments[f] \in Buffers THEN content[fragments[f]] ELSE fragments[f]) = packets[p].nb
      BY <2>2, <3>1 DEF Describes
    <3>3. Payload(p) = {packets[p].nb}
      BY <2>7, <3>2 DEF Payload
    <3>4. ASSUME NEW f \in FragmentsOf(p), fragments[f] \in Buffers
          PROVE  fragments[f] \notin free
      <4>1. f \in FragmentIndexes /\ fragmentContext[f] = fragments[f]
        BY <2>2, <3>1, <3>4 DEF Describes
      <4> QED
        BY <1>1, <3>4, <4>1 DEF BufferInv
    <3>5. BuffersOf(p) \cap free = {}
      BY <3>4 DEF BuffersOf
    <3> QED
      BY <3>3, <3>5
  <2>10. ASSUME NEW q \in NicPackets \ {p}, NEW f \in FragmentsOf(p) \cap FragmentsOf(q)
         PROVE  FALSE
    <3>1. q \in PacketIndexes /\ Nic(q)
      BY <1>1, NicPacketsAre DEF Nic
    <3>2. f \in FragmentIndexes /\ Owns(p, f)
      BY <2>6
    <3>3. Owns(q, f)
      BY <1>1, <2>10, <3>1, <3>2, OwnsIs
    <3> QED
      BY <1>1, <2>1, <2>10, <3>1, <3>2, <3>3, OneOwner
  <2> QED
    BY <2>8, <2>9, <2>10
<1>3. \A p \in NicPackets : packets[p].nb.item.nbl \notin atOs \cup completedChain
  BY <1>1, NicPacketsAre, OwnedByTheQueue
<1> QED
  BY <1>2, <1>3 DEF PacketsKeepTheirData

\* The NBL of a packet that the NIC has is not with its owner, and the packet
\* has its fragments for itself; it describes the bytes of its NET_BUFFER, in
\* bounce buffers that are in use, unless it was bounced into a fragment of a
\* packet that no drain had reached.
THEOREM TransmitData == Spec => []PacketsKeepTheirData
<1>1. OwnersInv /\ ContentsInv => PacketsKeepTheirData
  BY DataIsKept
<1> QED
  BY <1>1, TransmitContents, PTL

-----------------------------------------------------------------------------
(* Nothing is lost or doubled.                                              *)

LEMMA ResourcesAreHeld == ASSUME OwnersInv, ContentsInv PROVE ResourcesComeBack
<1>1. TypeInv /\ RingInv /\ FragmentInv /\ BufferInv /\ CloneInv
  BY DEF OwnersInv, ContentsInv
<1>2. Undrained = {p \in PacketIndexes : Offset(p) < Filled}
  BY <1>1, UndrainedAre
<1> DEFINE Held == UNION {FragmentsOf(p) : p \in Undrained}
           noted == {fragmentContext[f] : f \in Held} \ {Nothing}
<1>3. \A f \in FragmentIndexes, p \in PacketIndexes : Holds(p, f) => f \in Held
  BY <1>2 DEF Holds
<1>4. Held \subseteq FragmentIndexes
  <2>1. \A p \in Undrained : FragmentsOf(p) \subseteq FragmentIndexes
    BY <1>1, <1>2, FragmentsOfIn
  <2> QED
    BY <2>1
<1> HIDE DEF Held
<1>5. noted = {b \in Buffers : \E f \in FragmentIndexes : fragmentContext[f] = b}
  <2>1. ASSUME NEW b \in Buffers, NEW f \in FragmentIndexes, fragmentContext[f] = b
        PROVE  b \in noted
    <3>1. b # Nothing
      BY NothingIsApart
    <3>2. \E p \in PacketIndexes : Holds(p, f)
      BY <1>1, <2>1, <3>1 DEF BufferInv
    <3>3. f \in Held
      BY <1>3, <3>2
    <3> QED
      BY <2>1, <3>1, <3>3
  <2>2. ASSUME NEW f \in Held, fragmentContext[f] # Nothing
        PROVE  f \in FragmentIndexes /\ fragmentContext[f] \in Buffers
    BY <1>1, <1>4, <2>2 DEF TypeInv
  <2> QED
    BY <2>1, <2>2
<1>9. /\ \A b \in Buffers : b \notin free <=> b \in lost \/ \E f \in FragmentIndexes : fragmentContext[f] = b
      /\ \A f \in FragmentIndexes : fragmentContext[f] \notin lost
      /\ lost \in SUBSET Buffers
  BY <1>1 DEF BufferInv, TypeInv
<1>10. Buffers \ free = noted \cup lost /\ noted \cap lost = {}
  <2> HIDE DEF noted
  <2> QED
    BY <1>5, <1>9
<1>6. sgl \subseteq Undrained
  BY <1>1, <1>2 DEF RingInv, TypeInv
<1>7. DOMAIN packets = PacketIndexes
  BY <1>1 DEF TypeInv
<1>8. clones \ strayClones =
       {n \in Nbls : \/ \E i \in DOMAIN currentNbl : currentNbl[i] = Clone(n)
                     \/ \E p \in DOMAIN packets : packets[p].complete = Clone(n)}
  BY <1>1, <1>7 DEF CloneInv, Cloned
<1> QED
  BY <1>6, <1>8, <1>10 DEF ResourcesComeBack, Held

\* Every NBL is in one place, or nowhere if a stop gave its clone to NDIS; what
\* has been taken from the bounce pool, the HAL and the segmentation is what
\* undrained packets hold, and the bounce buffers that were overwritten.
THEOREM TransmitResources == Spec => []NothingLostOrDoubled
<1>1. OwnersInv /\ ContentsInv => NothingLostOrDoubled
  BY OwnersAreSomewhere, ResourcesAreHeld DEF NothingLostOrDoubled
<1> QED
  BY <1>1, TransmitContents, PTL

================================================================================
