---------------------------- MODULE Receive_proofs ----------------------------
(****************************************************************************)
(* Proofs about Receive, for any numbers of NBLs, of fragments and of data  *)
(* buffers, any sizes of a batch and any driver of the three modes: who     *)
(* owns what (OwnersInv), how often a data buffer is referenced             *)
(* (DataBufferInv), and that both say what MemoryHasOneOwner and            *)
(* StopFindsEverything say.  A pool, a ring or a queue is a place; Placed   *)
(* says that everything is in exactly one of the places of a kind, and each *)
(* action moves something from one to another (Relocated, in ListLemmas).   *)
(****************************************************************************)
EXTENDS Receive, ListLemmas

-----------------------------------------------------------------------------
(* Lists of which parts move from one owner to another.                     *)

\* No value but None is in the list twice.
Sole(s) == \A i, j \in DOMAIN s : s[i] = s[j] /\ s[i] # None => i = j

\* What a list holds.
Held(s) == ToSet(s) \ {None}

\* A field of the records in a list.
Column(s, f) == [i \in DOMAIN s |-> s[i][f]]

LEMMA InHeld ==
  ASSUME NEW s, NEW x
  PROVE  x \in Held(s) <=> x # None /\ \E i \in DOMAIN s : s[i] = x
  BY DEF Held, ToSet

LEMMA EmptyList == Sole(<<>>) /\ Held(<<>>) = {} /\ \A f : Column(<<>>, f) = <<>>
<1>1. DOMAIN <<>> = {}
  OBVIOUS
<1>2. ASSUME NEW f PROVE Column(<<>>, f) = <<>>
  BY <1>1 DEF Column
<1> QED
  BY <1>1, <1>2 DEF Sole, Held, ToSet

LEMMA OneElement == ASSUME NEW x PROVE Sole(<<x>>) /\ Held(<<x>>) = {x} \ {None}
<1>1. DOMAIN <<x>> = {1} /\ <<x>>[1] = x
  OBVIOUS
<1> QED
  BY <1>1 DEF Sole, Held, ToSet

\* Two lists one after the other.
LEMMA Concatenated ==
  ASSUME NEW S, NEW s \in Seq(S), NEW t \in Seq(S)
  PROVE  /\ Held(s \o t) = Held(s) \cup Held(t)
         /\ Sole(s) /\ Sole(t) /\ Held(s) \cap Held(t) = {} => Sole(s \o t)
<1> DEFINE u == s \o t
<1>1. /\ DOMAIN s = 1 .. Len(s) /\ DOMAIN t = 1 .. Len(t) /\ DOMAIN u = 1 .. Len(s) + Len(t)
      /\ Len(s) \in Nat /\ Len(t) \in Nat
      /\ \A i \in 1 .. Len(s) + Len(t) : u[i] = IF i <= Len(s) THEN s[i] ELSE t[i - Len(s)]
  BY ConcatProperties, LenProperties
<1> HIDE DEF u
<1>2. ASSUME NEW i \in DOMAIN u
      PROVE  \/ i \in DOMAIN s /\ u[i] = s[i]
             \/ i > Len(s) /\ i - Len(s) \in DOMAIN t /\ u[i] = t[i - Len(s)]
  BY <1>1
<1>3. \A i \in DOMAIN s : i \in DOMAIN u /\ u[i] = s[i]
  BY <1>1
<1>4. ASSUME NEW i \in DOMAIN t PROVE i + Len(s) \in DOMAIN u /\ u[i + Len(s)] = t[i]
  <2>1. i + Len(s) \in 1 .. Len(s) + Len(t) /\ ~(i + Len(s) <= Len(s)) /\ (i + Len(s)) - Len(s) = i
    BY <1>1
  <2> QED
    BY <1>1, <2>1
<1>5. ASSUME NEW x PROVE x \in Held(u) <=> x \in Held(s) \/ x \in Held(t)
  BY <1>2, <1>3, <1>4, InHeld
<1>6. ASSUME Sole(s), Sole(t), Held(s) \cap Held(t) = {} PROVE Sole(u)
  <2>1. SUFFICES ASSUME NEW i \in DOMAIN u, NEW j \in DOMAIN u, u[i] = u[j], u[i] # None
                 PROVE  i = j
    BY DEF Sole
  <2>2. CASE i \in DOMAIN s /\ u[i] = s[i] /\ j \in DOMAIN s /\ u[j] = s[j]
    BY <1>6, <2>1, <2>2 DEF Sole
  <2>3. CASE /\ i > Len(s) /\ i - Len(s) \in DOMAIN t /\ u[i] = t[i - Len(s)]
             /\ j > Len(s) /\ j - Len(s) \in DOMAIN t /\ u[j] = t[j - Len(s)]
    <3>1. i - Len(s) = j - Len(s)
      BY <1>6, <2>1, <2>3 DEF Sole
    <3> QED
      BY <1>1, <3>1
  <2>4. ASSUME NEW a \in DOMAIN s, NEW b \in DOMAIN t PROVE s[a] # t[b] \/ s[a] = None
    BY <1>6, InHeld
  <2> QED
    BY <1>2, <2>1, <2>2, <2>3, <2>4
<1> QED
  BY <1>5, <1>6 DEF u

\* A list in two parts.
LEMMA Parted ==
  ASSUME NEW S, NEW s \in Seq(S), NEW k \in 0 .. Len(s)
  PROVE  LET a == SubSeq(s, 1, k)
             b == SubSeq(s, k + 1, Len(s))
         IN /\ a \in Seq(S) /\ b \in Seq(S) /\ Len(a) = k /\ Len(b) = Len(s) - k
            /\ DOMAIN a = 1 .. k /\ DOMAIN b = 1 .. Len(s) - k
            /\ \A i \in 1 .. k : a[i] = s[i]
            /\ \A i \in 1 .. Len(s) - k : b[i] = s[i + k]
            /\ Held(s) = Held(a) \cup Held(b)
            /\ Sole(s) => Sole(a) /\ Sole(b) /\ Held(a) \cap Held(b) = {}
<1> DEFINE a == SubSeq(s, 1, k)
           b == SubSeq(s, k + 1, Len(s))
           n == Len(s)
<1>1. n \in Nat /\ DOMAIN s = 1 .. n /\ \A i \in 1 .. n : s[i] \in S
  BY LenProperties, ElementOfSeq
<1>2. a \in Seq(S) /\ Len(a) = k /\ \A i \in 1 .. k : a[i] = s[i]
  <2>1. \A i \in 1 .. k : s[i] \in S /\ 1 + i - 1 = i
    BY <1>1
  <2>2. k \in Nat
    BY <1>1
  <2>3. /\ a \in Seq(S) /\ Len(a) = (IF 1 <= k THEN k - 1 + 1 ELSE 0)
        /\ \A i \in 1 .. k - 1 + 1 : a[i] = s[1 + i - 1]
    BY <2>1, <2>2, SubSeqProperties
  <2> HIDE DEF a
  <2> QED
    BY <2>1, <2>2, <2>3
<1>3. b \in Seq(S) /\ Len(b) = n - k /\ \A i \in 1 .. n - k : b[i] = s[i + k]
  <2>1. \A i \in k + 1 .. n : s[i] \in S
    BY <1>1
  <2>2. k + 1 \in Int /\ n \in Int
    BY <1>1
  <2>3. /\ b \in Seq(S) /\ Len(b) = (IF k + 1 <= n THEN n - (k + 1) + 1 ELSE 0)
        /\ \A i \in 1 .. n - (k + 1) + 1 : b[i] = s[(k + 1) + i - 1]
    BY <2>1, <2>2, SubSeqProperties
  <2>4. k \in Nat /\ k <= n
    BY <1>1
  <2> HIDE DEF b, n
  <2> QED
    BY <2>3, <2>4, <1>1
<1> HIDE DEF a, b, n
<1>4. DOMAIN a = 1 .. k /\ DOMAIN b = 1 .. n - k
  BY <1>2, <1>3, LenProperties
<1>5. ASSUME NEW i \in 1 .. n PROVE i \in 1 .. k \/ (i - k \in 1 .. n - k /\ (i - k) + k = i)
  BY <1>1
<1>6. /\ \A i \in 1 .. k : i \in 1 .. n
      /\ \A i \in 1 .. n - k : i + k \in 1 .. n /\ i + k > k
  BY <1>1 DEF n
<1>7. ASSUME NEW x PROVE x \in Held(s) <=> x \in Held(a) \/ x \in Held(b)
  <2>1. x \in Held(a) => x \in Held(s)
    BY <1>1, <1>2, <1>4, <1>6, InHeld
  <2>2. x \in Held(b) => x \in Held(s)
    BY <1>1, <1>3, <1>4, <1>6, InHeld
  <2>3. ASSUME NEW i \in 1 .. n, s[i] = x, x # None PROVE x \in Held(a) \/ x \in Held(b)
    <3>1. CASE i \in 1 .. k
      BY <3>1, <2>3, <1>2, <1>4, InHeld
    <3>2. CASE i - k \in 1 .. n - k /\ (i - k) + k = i
      BY <3>2, <2>3, <1>3, <1>4, InHeld
    <3> QED
      BY <1>5, <3>1, <3>2
  <2> QED
    BY <1>1, <2>1, <2>2, <2>3, InHeld
<1>8. ASSUME Sole(s) PROVE Sole(a) /\ Sole(b) /\ Held(a) \cap Held(b) = {}
  <2>1. Sole(a)
    BY <1>8, <1>1, <1>2, <1>4, <1>6 DEF Sole
  <2>2. Sole(b)
    <3>1. ASSUME NEW i \in 1 .. n - k, NEW j \in 1 .. n - k, b[i] = b[j], b[i] # None
          PROVE  i = j
      <4>1. i + k = j + k
        BY <3>1, <1>8, <1>1, <1>3, <1>6 DEF Sole
      <4> QED
        BY <4>1, <1>1
    <3> QED
      BY <3>1, <1>4 DEF Sole
  <2>3. ASSUME NEW x \in Held(a), x \in Held(b) PROVE FALSE
    <3>1. x # None
      BY <2>3, InHeld
    <3>2. PICK i \in 1 .. k : s[i] = x
      BY <2>3, <1>2, <1>4, InHeld
    <3>3. PICK j \in 1 .. n - k : s[j + k] = x
      BY <2>3, <1>3, <1>4, InHeld
    <3>4. i = j + k
      BY <3>1, <3>2, <3>3, <1>8, <1>1, <1>6 DEF Sole
    <3> QED
      BY <3>4, <1>6
  <2> QED
    BY <2>1, <2>2, <2>3
<1> QED
  BY <1>2, <1>3, <1>4, <1>7, <1>8 DEF a, b, n

\* The columns of a list.
Fielded(R, f, V) == \A r \in R : r[f] \in V

LEMMA ColumnIs ==
  ASSUME NEW R, NEW f, NEW V, Fielded(R, f, V)
  PROVE  \A s \in Seq(R) :
           /\ Column(s, f) \in Seq(V) /\ Len(Column(s, f)) = Len(s)
           /\ DOMAIN Column(s, f) = 1 .. Len(s)
           /\ \A i \in 1 .. Len(s) : Column(s, f)[i] = s[i][f]
<1> SUFFICES ASSUME NEW s \in Seq(R)
    PROVE  /\ Column(s, f) \in Seq(V) /\ Len(Column(s, f)) = Len(s)
           /\ DOMAIN Column(s, f) = 1 .. Len(s)
           /\ \A i \in 1 .. Len(s) : Column(s, f)[i] = s[i][f]
  OBVIOUS
<1>1. Len(s) \in Nat /\ DOMAIN s = 1 .. Len(s) /\ \A i \in 1 .. Len(s) : s[i] \in R
  BY LenProperties, ElementOfSeq
<1>2. Column(s, f) \in [1 .. Len(s) -> V]
  BY <1>1 DEF Column, Fielded
<1>3. Column(s, f) \in Seq(V)
  BY <1>1, <1>2, SeqDef
<1> QED
  BY <1>1, <1>2, <1>3, LenProperties DEF Column

LEMMA ColumnOfConcat ==
  ASSUME NEW R, NEW s \in Seq(R), NEW t \in Seq(R), NEW f, NEW V, Fielded(R, f, V)
  PROVE  Column(s \o t, f) = Column(s, f) \o Column(t, f)
<1> DEFINE c == Column(s \o t, f)
           d == Column(s, f) \o Column(t, f)
           n == Len(s) + Len(t)
<1>0. ASSUME NEW u \in Seq(R)
      PROVE  /\ Column(u, f) \in Seq(V) /\ Len(Column(u, f)) = Len(u)
             /\ \A i \in 1 .. Len(u) : Column(u, f)[i] = u[i][f]
  BY ColumnIs
<1>1. Len(s) \in Nat /\ Len(t) \in Nat
  BY LenProperties
<1>2. s \o t \in Seq(R) /\ Len(s \o t) = n
      /\ \A i \in 1 .. n : (s \o t)[i] = IF i <= Len(s) THEN s[i] ELSE t[i - Len(s)]
  BY ConcatProperties
<1>3. /\ c \in Seq(V) /\ Len(c) = n
      /\ \A i \in 1 .. n : c[i] = (s \o t)[i][f]
  BY <1>2, <1>0
<1>4. /\ d \in Seq(V) /\ Len(d) = n
      /\ \A i \in 1 .. n : d[i] = IF i <= Len(s) THEN Column(s, f)[i] ELSE Column(t, f)[i - Len(s)]
  <2> DEFINE x == Column(s, f)
             y == Column(t, f)
  <2>1. x \in Seq(V) /\ y \in Seq(V) /\ Len(x) = Len(s) /\ Len(y) = Len(t)
    BY <1>0
  <2> HIDE DEF x, y
  <2>2. /\ x \o y \in Seq(V) /\ Len(x \o y) = Len(x) + Len(y)
        /\ \A i \in 1 .. Len(x) + Len(y) :
             (x \o y)[i] = IF i <= Len(x) THEN x[i] ELSE y[i - Len(x)]
    BY <2>1, ConcatProperties
  <2> QED
    BY <2>1, <2>2 DEF x, y
<1>5. ASSUME NEW i \in 1 .. n PROVE c[i] = d[i]
  <2>1. CASE i <= Len(s)
    <3>1. i \in 1 .. Len(s)
      BY <2>1, <1>1
    <3> QED
      BY <2>1, <3>1, <1>2, <1>3, <1>4, <1>0, ZenonT(40)
  <2>2. CASE ~(i <= Len(s))
    <3>1. i - Len(s) \in 1 .. Len(t)
      BY <2>2, <1>1
    <3> QED
      BY <2>2, <3>1, <1>2, <1>3, <1>4, <1>0, ZenonT(40)
  <2> QED
    BY <2>1, <2>2
<1> HIDE DEF c, d
<1>6. c = d
  BY <1>3, <1>4, <1>5, SeqEqual
<1> QED
  BY <1>6 DEF c, d

LEMMA ColumnOfRest ==
  ASSUME NEW R, NEW s \in Seq(R), NEW k \in 0 .. Len(s), NEW f, NEW V, Fielded(R, f, V)
  PROVE  /\ Column(SubSeq(s, 1, k), f) = SubSeq(Column(s, f), 1, k)
         /\ Column(SubSeq(s, k + 1, Len(s)), f) = SubSeq(Column(s, f), k + 1, Len(s))
<1>0. ASSUME NEW u \in Seq(R)
      PROVE  /\ Column(u, f) \in Seq(V) /\ Len(Column(u, f)) = Len(u)
             /\ \A i \in 1 .. Len(u) : Column(u, f)[i] = u[i][f]
  BY ColumnIs
<1> DEFINE c == Column(s, f)
<1>1. c \in Seq(V) /\ Len(c) = Len(s) /\ \A i \in 1 .. Len(s) : c[i] = s[i][f]
  BY <1>0
<1>2. Len(s) \in Nat
  BY LenProperties
<1> HIDE DEF c
<1>3. Column(SubSeq(s, 1, k), f) = SubSeq(c, 1, k)
  <2> DEFINE p == SubSeq(s, 1, k)
             q == SubSeq(c, 1, k)
  <2>1. p \in Seq(R) /\ Len(p) = k /\ \A i \in 1 .. k : p[i] = s[i]
    BY Parted
  <2>2. q \in Seq(V) /\ Len(q) = k /\ \A i \in 1 .. k : q[i] = c[i]
    BY <1>1, Parted
  <2> HIDE DEF p, q
  <2>3. /\ Column(p, f) \in Seq(V) /\ Len(Column(p, f)) = k
        /\ \A i \in 1 .. k : Column(p, f)[i] = p[i][f]
    BY <2>1, <1>0
  <2>4. \A i \in 1 .. k : i \in 1 .. Len(s)
    BY <1>2
  <2>5. Column(p, f) = q
    BY <1>1, <2>1, <2>2, <2>3, <2>4, SeqEqual
  <2> QED
    BY <2>5 DEF p, q
<1>4. Column(SubSeq(s, k + 1, Len(s)), f) = SubSeq(c, k + 1, Len(s))
  <2> DEFINE p == SubSeq(s, k + 1, Len(s))
             q == SubSeq(c, k + 1, Len(s))
             n == Len(s) - k
  <2>1. p \in Seq(R) /\ Len(p) = n /\ \A i \in 1 .. n : p[i] = s[i + k]
    BY Parted
  <2>2. q \in Seq(V) /\ Len(q) = n /\ \A i \in 1 .. n : q[i] = c[i + k]
    BY <1>1, Parted
  <2>3. \A i \in 1 .. n : i + k \in 1 .. Len(s)
    BY <1>2
  <2> HIDE DEF p, q, n
  <2>4. /\ Column(p, f) \in Seq(V) /\ Len(Column(p, f)) = n
        /\ \A i \in 1 .. n : Column(p, f)[i] = p[i][f]
    BY <2>1, <1>0
  <2> DEFINE x == Column(p, f)
  <2>5. x \in Seq(V) /\ Len(x) = Len(q) /\ \A i \in 1 .. Len(x) : x[i] = q[i]
    BY <1>1, <2>1, <2>2, <2>3, <2>4
  <2> HIDE DEF x
  <2>6. x = q
    BY <2>2, <2>5, SeqEqual
  <2> QED
    BY <2>6 DEF p, q, x
<1> QED
  BY <1>3, <1>4 DEF c

-----------------------------------------------------------------------------
(* What leaves a pool.                                                      *)
LEMMA SizesAreNumbers ==
  /\ NblCount \in Nat \ {0} /\ BufferCount \in Nat \ {0} /\ MaxFragments \in Nat \ {0}
  /\ Batch \in Nat \ {0}
  /\ PacketSlots \in Nat /\ PacketSlots > 1 /\ FragmentSlots \in Nat /\ FragmentSlots > 1
  /\ BufferSlots \in Nat /\ BufferSlots > 1
  BY SizeAssumption

LEMMA NullIsNobody == None \notin Nbls /\ None \notin Buffers
  BY NullAssumption

LEMMA FinitelyMany == IsFiniteSet(Nbls) /\ IsFiniteSet(Buffers)
  BY SizesAreNumbers, FS_Interval DEF Nbls, Buffers

LEMMA PoppedFromPool ==
  ASSUME NEW pool, IsFiniteSet(pool), None \notin pool, NEW count \in Int,
         count <= Cardinality(pool)
  PROVE  LET s == Popped(pool, count)
         IN /\ s \in Seq(pool) /\ Sole(s) /\ Held(s) \subseteq pool /\ ToSet(s) = Held(s)
            /\ count >= 0 => Len(s) = count
<1> DEFINE n == Cardinality(pool)
           all == SetToSeq(pool)
           s == Popped(pool, count)
<1>1. n \in Nat /\ ExistsBijection(1 .. n, pool)
  BY FS_CardinalityType
<1>2. \E f \in [1 .. n -> pool] : IsInjective(f)
  BY <1>1, Zenon DEF ExistsBijection, Bijection, Injection
<1>3. all \in [1 .. n -> pool] /\ IsInjective(all)
  BY <1>2, Zenon DEF SetToSeq
<1>4. all \in Seq(pool)
  BY <1>1, <1>3, SeqDef
<1>5. Len(all) = n /\ Sole(all)
  BY <1>1, <1>3, <1>4, LenProperties DEF Sole, IsInjective
<1> HIDE DEF all
<1>6. s \in Seq(pool) /\ Sole(s) /\ (count >= 0 => Len(s) = count)
  <2>1. CASE count >= 0
    <3>1. count \in 0 .. Len(all)
      BY <2>1, <1>1, <1>5
    <3>2. /\ SubSeq(all, 1, count) \in Seq(pool) /\ Len(SubSeq(all, 1, count)) = count
          /\ Sole(SubSeq(all, 1, count))
      BY <3>1, <1>4, <1>5, Parted
    <3> QED
      BY <3>2 DEF Popped, all
  <2>2. CASE ~(count >= 0)
    <3>1. \A i \in 1 .. count : all[i] \in pool
      BY <2>2
    <3>2. SubSeq(all, 1, count) \in Seq(pool) /\ Len(SubSeq(all, 1, count)) = 0
      BY <3>1, <2>2, SubSeqProperties
    <3>3. SubSeq(all, 1, count) = <<>>
      BY <3>2, EmptySeq
    <3>4. s = <<>>
      BY <3>3 DEF Popped, all
    <3> QED
      BY <3>4, <2>2, EmptyList
  <2> QED
    BY <2>1, <2>2
<1> HIDE DEF s
<1>7. ToSet(s) \subseteq pool
  BY <1>6, LenProperties, ElementOfSeq DEF ToSet
<1> QED
  BY <1>6, <1>7 DEF Held, s

-----------------------------------------------------------------------------
(* How the fragments belong to the packets.                                 *)

Packet == [nbl : Nbls, count : Nat, ignore : BOOLEAN, valid : BOOLEAN]
Memory == Buffers \cup {None}
FragmentType == [mdl : Memory, memory : Memory, skipped : BOOLEAN]

LEMMA Fields ==
  /\ Fielded(Packet, "nbl", Nbls)
  /\ Fielded(FragmentType, "mdl", Memory) /\ Fielded(FragmentType, "memory", Memory)
  BY DEF Fielded, Packet, FragmentType

\* Of the fragments between two places the last count belong to a packet, and the others
\* are skipped.
Segment(s, low, high, count) ==
  /\ \A x \in 1 .. Len(s) : low < x /\ x <= high - count => s[x].skipped
  /\ \A x \in 1 .. Len(s) : high - count < x /\ x <= high => ~s[x].skipped
  /\ \A x, y \in 1 .. Len(s) :
       high - count < x /\ x <= high /\ high - count < y /\ y <= high
           /\ s[x].memory = s[y].memory => x = y

\* The fragments of packet i end at ends[i]; those after the last packet are skipped.
Lays(d, s, ends) ==
  /\ ends \in [0 .. Len(d) -> 0 .. Len(s)] /\ ends[0] = 0
  /\ \A i \in 1 .. Len(d) :
       IF d[i].ignore THEN ends[i] = ends[i - 1]
       ELSE /\ d[i].count > 0 /\ ends[i - 1] + d[i].count <= ends[i]
            /\ Segment(s, ends[i - 1], ends[i], d[i].count)
  /\ \A x \in 1 .. Len(s) : ends[Len(d)] < x => s[x].skipped
Laid(d, s) == \E ends : Lays(d, s, ends)

\* Nothing in the rings.
LEMMA LaidEmpty == Laid(<<>>, <<>>)
<1> DEFINE ends == [i \in 0 .. 0 |-> 0]
<1>1. Len(<<>>) = 0
  OBVIOUS
<1>2. Lays(<<>>, <<>>, ends)
  BY <1>1 DEF Lays
<1> QED
  BY <1>2 DEF Laid

\* What comes behind changes nothing.
LEMMA SegmentStays ==
  ASSUME NEW R, NEW s \in Seq(R), NEW u \in Seq(R), NEW low \in 0 .. Len(s),
         NEW high \in 0 .. Len(s), NEW count \in Nat, low + count <= high,
         Len(s) <= Len(u), \A x \in 1 .. Len(s) : u[x] = s[x],
         Segment(s, low, high, count)
  PROVE  Segment(u, low, high, count)
<1>1. Len(s) \in Nat /\ Len(u) \in Nat
  BY LenProperties
<1>2. \A x \in 1 .. Len(u) : x <= high => x \in 1 .. Len(s) /\ u[x] = s[x]
  BY <1>1
<1>3. ASSUME NEW x \in 1 .. Len(u), low < x, x <= high - count PROVE u[x].skipped
  <2>1. x <= high
    BY <1>1, <1>3
  <2> QED
    BY <1>2, <1>3, <2>1 DEF Segment
<1>5. ASSUME NEW x \in 1 .. Len(u), high - count < x, x <= high PROVE ~u[x].skipped
  BY <1>2, <1>5 DEF Segment
<1>4. ASSUME NEW x \in 1 .. Len(u), NEW y \in 1 .. Len(u),
             high - count < x, x <= high, high - count < y, y <= high, u[x].memory = u[y].memory
      PROVE  x = y
  BY <1>2, <1>4 DEF Segment
<1>6. \A x \in 1 .. Len(u) : low < x /\ x <= high - count => u[x].skipped
  BY <1>3
<1>7. \A x \in 1 .. Len(u) : high - count < x /\ x <= high => ~u[x].skipped
  BY <1>5
<1>8. \A x, y \in 1 .. Len(u) :
        high - count < x /\ x <= high /\ high - count < y /\ y <= high
           /\ u[x].memory = u[y].memory => x = y
  <2> SUFFICES ASSUME NEW x \in 1 .. Len(u), NEW y \in 1 .. Len(u),
                      high - count < x, x <= high, high - count < y, y <= high,
                      u[x].memory = u[y].memory
               PROVE  x = y
    BY Zenon
  <2> QED
    BY <1>4
<1> QED
  BY <1>6, <1>7, <1>8, Zenon DEF Segment

\* More fragments that are skipped.
LEMMA LaidSkipped ==
  ASSUME NEW d \in Seq(Packet), NEW s \in Seq(FragmentType), NEW t \in Seq(FragmentType),
         Laid(d, s), \A i \in 1 .. Len(t) : t[i].skipped
  PROVE  Laid(d, s \o t)
<1>1. PICK ends : Lays(d, s, ends)
  BY DEF Laid
<1> DEFINE u == s \o t
<1>2. /\ Len(d) \in Nat /\ Len(s) \in Nat /\ Len(t) \in Nat /\ Len(u) = Len(s) + Len(t)
      /\ \A i \in 1 .. Len(u) : u[i] = IF i <= Len(s) THEN s[i] ELSE t[i - Len(s)]
      /\ \A i \in 1 .. Len(d) : d[i] \in Packet
      /\ u \in Seq(FragmentType)
  BY ConcatProperties, LenProperties, ElementOfSeq
<1> HIDE DEF u
<1>3. \A x \in 1 .. Len(u) : x \in 1 .. Len(s) \/ (x > Len(s) /\ u[x].skipped)
  BY <1>2
<1>4. \A x \in 1 .. Len(s) : x \in 1 .. Len(u) /\ u[x] = s[x]
  BY <1>2
<1>5. /\ ends \in [0 .. Len(d) -> 0 .. Len(u)] /\ ends[0] = 0
      /\ \A i \in 0 .. Len(d) : ends[i] \in 0 .. Len(s)
  <2>1. ends \in [0 .. Len(d) -> 0 .. Len(s)] /\ ends[0] = 0
    BY <1>1 DEF Lays
  <2>2. 0 .. Len(s) \subseteq 0 .. Len(u)
    BY <1>2
  <2> QED
    BY <2>1, <2>2
<1>6. ASSUME NEW i \in 1 .. Len(d), ~d[i].ignore
      PROVE  Segment(u, ends[i - 1], ends[i], d[i].count)
  <2>1. i \in 0 .. Len(d) /\ i - 1 \in 0 .. Len(d) /\ d[i].count \in Nat
    BY <1>2 DEF Packet
  <2>2. Segment(s, ends[i - 1], ends[i], d[i].count) /\ ends[i - 1] + d[i].count <= ends[i]
    BY <1>1, <1>6 DEF Lays
  <2>3. Len(s) <= Len(u)
    BY <1>2
  <2> QED
    BY <2>1, <2>2, <2>3, <1>2, <1>4, <1>5, SegmentStays
<1>7. \A x \in 1 .. Len(u) : ends[Len(d)] < x => u[x].skipped
  BY <1>1, <1>3, <1>4 DEF Lays
<1>8. Lays(d, u, ends)
  BY <1>1, <1>5, <1>6, <1>7 DEF Lays
<1> QED
  BY <1>8 DEF Laid, u

\* More packets without data.
LEMMA LaidIgnored ==
  ASSUME NEW d \in Seq(Packet), NEW e \in Seq(Packet), NEW s \in Seq(FragmentType),
         Laid(d, s), \A i \in 1 .. Len(e) : e[i].ignore
  PROVE  Laid(d \o e, s)
<1>1. PICK ends : Lays(d, s, ends)
  BY DEF Laid
<1> DEFINE f == d \o e
           n == Len(d)
           more == [i \in 0 .. Len(f) |-> IF i <= n THEN ends[i] ELSE ends[n]]
<1>2. /\ n \in Nat /\ Len(s) \in Nat /\ Len(e) \in Nat /\ Len(f) = n + Len(e)
      /\ \A i \in 1 .. Len(f) : f[i] = IF i <= n THEN d[i] ELSE e[i - n]
  BY ConcatProperties, LenProperties
<1>3. \A i \in 0 .. n : ends[i] \in 0 .. Len(s)
  BY <1>1 DEF Lays
<1>4. /\ more \in [0 .. Len(f) -> 0 .. Len(s)]
      /\ \A i \in 0 .. n : more[i] = ends[i]
      /\ \A i \in 0 .. Len(f) : i >= n => more[i] = ends[n]
  BY <1>2, <1>3
<1> HIDE DEF f, n, more
<1>5. ASSUME NEW i \in 1 .. Len(f)
      PROVE  IF f[i].ignore THEN more[i] = more[i - 1]
             ELSE /\ f[i].count > 0 /\ more[i - 1] + f[i].count <= more[i]
                  /\ Segment(s, more[i - 1], more[i], f[i].count)
  <2>1. CASE i <= n
    <3>1. i \in 1 .. n /\ i \in 0 .. n /\ i - 1 \in 0 .. n /\ f[i] = d[i]
      BY <2>1, <1>2
    <3> QED
      BY <3>1, <1>1, <1>4 DEF Lays, n
  <2>2. CASE i > n
    <3>1. i - n \in 1 .. Len(e) /\ f[i] = e[i - n] /\ i - 1 >= n /\ i \in 0 .. Len(f)
          /\ i - 1 \in 0 .. Len(f) /\ i >= n
      BY <2>2, <1>2
    <3> QED
      BY <3>1, <1>4
  <2> QED
    BY <2>1, <2>2, <1>2
<1>6. more[0] = 0 /\ more[Len(f)] = ends[n]
  BY <1>1, <1>2, <1>4 DEF Lays
<1>7. Lays(f, s, more)
  BY <1>1, <1>4, <1>5, <1>6 DEF Lays, n
<1> QED
  BY <1>7 DEF Laid, f

\* A packet with the fragments behind.
LEMMA LaidPacket ==
  ASSUME NEW d \in Seq(Packet), NEW p \in Packet, NEW s \in Seq(FragmentType),
         NEW t \in Seq(FragmentType), Laid(d, s), ~p.ignore, p.count = Len(t), Len(t) > 0,
         \A i \in 1 .. Len(t) : ~t[i].skipped,
         \A i, j \in 1 .. Len(t) : t[i].memory = t[j].memory => i = j
  PROVE  Laid(Append(d, p), s \o t)
<1>1. PICK ends : Lays(d, s, ends)
  BY DEF Laid
<1> DEFINE u == s \o t
           f == Append(d, p)
           n == Len(d)
           more == [i \in 0 .. n + 1 |-> IF i <= n THEN ends[i] ELSE Len(u)]
<1>2. /\ n \in Nat /\ Len(s) \in Nat /\ Len(t) \in Nat /\ Len(u) = Len(s) + Len(t)
      /\ \A i \in 1 .. Len(u) : u[i] = IF i <= Len(s) THEN s[i] ELSE t[i - Len(s)]
      /\ u \in Seq(FragmentType) /\ \A i \in 1 .. n : d[i] \in Packet
  BY ConcatProperties, LenProperties, ElementOfSeq
<1>3. Len(f) = n + 1 /\ f[n + 1] = p /\ \A i \in 1 .. n : f[i] = d[i]
  BY AppendProperties
<1>4. /\ \A i \in 0 .. n : ends[i] \in 0 .. Len(s)
      /\ ends[0] = 0 /\ \A x \in 1 .. Len(s) : ends[n] < x => s[x].skipped
  BY <1>1 DEF Lays
<1> HIDE DEF u
<1>5. /\ more \in [0 .. n + 1 -> 0 .. Len(u)]
      /\ \A i \in 0 .. n : more[i] = ends[i]
      /\ more[n + 1] = Len(u)
  BY <1>2, <1>4
<1> HIDE DEF f, n, more
<1>6. ASSUME NEW i \in 1 .. n
      PROVE  IF f[i].ignore THEN more[i] = more[i - 1]
             ELSE /\ f[i].count > 0 /\ more[i - 1] + f[i].count <= more[i]
                  /\ Segment(u, more[i - 1], more[i], f[i].count)
  <2>1. i \in 0 .. n /\ i - 1 \in 0 .. n /\ f[i] = d[i] /\ d[i].count \in Nat
    BY <1>2, <1>3 DEF Packet
  <2>2. ~d[i].ignore => /\ Segment(s, ends[i - 1], ends[i], d[i].count)
                        /\ ends[i - 1] + d[i].count <= ends[i] /\ d[i].count > 0
    BY <1>1 DEF Lays, n
  <2>3. Len(s) <= Len(u) /\ \A x \in 1 .. Len(s) : u[x] = s[x]
    BY <1>2
  <2>4. ~d[i].ignore => Segment(u, ends[i - 1], ends[i], d[i].count)
    BY <2>1, <2>2, <2>3, <1>2, <1>4, SegmentStays
  <2>5. d[i].ignore => ends[i] = ends[i - 1]
    BY <1>1 DEF Lays, n
  <2> QED
    BY <2>1, <2>2, <2>4, <2>5, <1>5
<1>7. Segment(u, ends[n], Len(u), p.count)
  <2>1. Len(u) - p.count = Len(s) /\ ends[n] \in 0 .. Len(s)
    BY <1>2, <1>4
  <2>2. \A x \in 1 .. Len(u) : ends[n] < x /\ x <= Len(s) => u[x].skipped
    <3>1. \A x \in 1 .. Len(u) : x <= Len(s) => x \in 1 .. Len(s) /\ u[x] = s[x]
      BY <1>2
    <3> QED
      BY <3>1, <1>4
  <2>4. \A x \in 1 .. Len(u) : Len(s) < x => ~u[x].skipped
    <3>1. \A x \in 1 .. Len(u) : Len(s) < x => x - Len(s) \in 1 .. Len(t) /\ u[x] = t[x - Len(s)]
      BY <1>2
    <3> QED
      BY <3>1
  <2>3. ASSUME NEW x \in 1 .. Len(u), NEW y \in 1 .. Len(u), Len(s) < x, Len(s) < y,
               u[x].memory = u[y].memory
        PROVE  x = y
    <3>1. /\ x - Len(s) \in 1 .. Len(t) /\ u[x] = t[x - Len(s)]
          /\ y - Len(s) \in 1 .. Len(t) /\ u[y] = t[y - Len(s)]
      BY <2>3, <1>2
    <3>2. x - Len(s) = y - Len(s)
      BY <3>1, <2>3
    <3> QED
      BY <3>2, <1>2
  <2> QED
    <3> DEFINE low == ends[n]
               high == Len(u)
               count == p.count
    <3>1. /\ high - count = Len(s)
          /\ \A x \in 1 .. high : x <= high
      BY <2>1, <1>2
    <3>2. \A x \in 1 .. Len(u) : low < x /\ x <= high - count => u[x].skipped
      BY <2>2, <3>1
    <3>3. \A x \in 1 .. Len(u) : high - count < x /\ x <= high => ~u[x].skipped
      BY <2>4, <3>1
    <3>4. \A x, y \in 1 .. Len(u) :
            high - count < x /\ x <= high /\ high - count < y /\ y <= high
           /\ u[x].memory = u[y].memory => x = y
      <4> SUFFICES ASSUME NEW x \in 1 .. Len(u), NEW y \in 1 .. Len(u),
                          high - count < x, high - count < y, u[x].memory = u[y].memory
                   PROVE  x = y
        BY Zenon
      <4> QED
        BY <2>3, <3>1
    <3> HIDE DEF low, high, count
    <3>5. Segment(u, low, high, count)
      BY <3>2, <3>3, <3>4, Zenon DEF Segment
    <3> QED
      BY <3>5 DEF low, high, count
<1>8. ends[n] + p.count <= Len(u)
  BY <1>2, <1>4
<1>9. Lays(f, u, more)
  <2>1. ASSUME NEW i \in 1 .. n + 1
        PROVE  IF f[i].ignore THEN more[i] = more[i - 1]
               ELSE /\ f[i].count > 0 /\ more[i - 1] + f[i].count <= more[i]
                    /\ Segment(u, more[i - 1], more[i], f[i].count)
    <3>1. CASE i \in 1 .. n
      BY <3>1, <1>6
    <3>2. CASE i = n + 1
      <4>1. i - 1 = n /\ n \in 0 .. n
        BY <3>2, <1>2
      <4>2. more[i] = Len(u) /\ more[i - 1] = ends[n] /\ f[i] = p
        BY <4>1, <3>2, <1>3, <1>5
      <4> QED
        BY <4>2, <1>7, <1>8
    <3> QED
      BY <3>1, <3>2, <1>2
  <2>2. more[0] = 0
    BY <1>2, <1>4, <1>5
  <2>3. \A x \in 1 .. Len(u) : more[n + 1] < x => u[x].skipped
    BY <1>2, <1>5
  <2> QED
    BY <2>1, <2>2, <2>3, <1>3, <1>5 DEF Lays
<1> QED
  BY <1>9 DEF Laid, f, u

\* What comes before is gone.
LEMMA SegmentMoves ==
  ASSUME NEW R, NEW s \in Seq(R), NEW k \in 0 .. Len(s), NEW low \in k .. Len(s),
         NEW high \in k .. Len(s), NEW count \in Nat, low + count <= high,
         Segment(s, low, high, count)
  PROVE  Segment(SubSeq(s, k + 1, Len(s)), low - k, high - k, count)
<1> DEFINE u == SubSeq(s, k + 1, Len(s))
<1>1. /\ Len(s) \in Nat /\ Len(u) = Len(s) - k
      /\ \A x \in 1 .. Len(s) - k : u[x] = s[x + k]
  BY Parted, LenProperties
<1> HIDE DEF u
<1>2. \A x \in 1 .. Len(u) : x + k \in 1 .. Len(s) /\ u[x] = s[x + k]
  BY <1>1
<1>3. \A x \in 1 .. Len(u) : low - k < x /\ x <= (high - k) - count => u[x].skipped
  <2> SUFFICES ASSUME NEW x \in 1 .. Len(u), low - k < x, x <= (high - k) - count
               PROVE  u[x].skipped
    BY Zenon
  <2>1. low < x + k /\ x + k <= high - count
    BY <1>1
  <2> QED
    BY <1>2, <2>1 DEF Segment
<1>4. \A x \in 1 .. Len(u) : (high - k) - count < x /\ x <= high - k => ~u[x].skipped
  <2> SUFFICES ASSUME NEW x \in 1 .. Len(u), (high - k) - count < x, x <= high - k
               PROVE  ~u[x].skipped
    BY Zenon
  <2>1. high - count < x + k /\ x + k <= high
    BY <1>1
  <2> QED
    BY <1>2, <2>1 DEF Segment
<1>5. \A x, y \in 1 .. Len(u) :
        (high - k) - count < x /\ x <= high - k /\ (high - k) - count < y /\ y <= high - k
          /\ u[x].memory = u[y].memory => x = y
  <2> SUFFICES ASSUME NEW x \in 1 .. Len(u), NEW y \in 1 .. Len(u),
                      (high - k) - count < x, x <= high - k,
                      (high - k) - count < y, y <= high - k, u[x].memory = u[y].memory
               PROVE  x = y
    BY Zenon
  <2>1. high - count < x + k /\ x + k <= high /\ high - count < y + k /\ y + k <= high
    BY <1>1
  <2>2. x + k = y + k
    BY <1>2, <2>1 DEF Segment
  <2> QED
    BY <1>1, <2>2
<1>6. Segment(u, low - k, high - k, count)
  <2> DEFINE a == low - k
             b == high - k
  <2> HIDE DEF a, b
  <2>1. Segment(u, a, b, count)
    <3>1. \A x \in 1 .. Len(u) : a < x /\ x <= b - count => u[x].skipped
      BY <1>3 DEF a, b
    <3>2. \A x \in 1 .. Len(u) : b - count < x /\ x <= b => ~u[x].skipped
      BY <1>4 DEF b
    <3>3. \A x, y \in 1 .. Len(u) :
            b - count < x /\ x <= b /\ b - count < y /\ y <= b
              /\ u[x].memory = u[y].memory => x = y
      BY <1>5 DEF b
    <3> QED
      BY <3>1, <3>2, <3>3, Zenon DEF Segment
  <2> QED
    BY <2>1 DEF a, b
<1> QED
  BY <1>6 DEF u

\* The first packet is gone, with its fragments and those before them.
LEMMA LaidRest ==
  ASSUME NEW d \in Seq(Packet), NEW s \in Seq(FragmentType), d # <<>>, NEW ends,
         Lays(d, s, ends)
  PROVE  Laid(Tail(d), SubSeq(s, ends[1] + 1, Len(s)))
<1> DEFINE k == ends[1]
           u == SubSeq(s, k + 1, Len(s))
           f == Tail(d)
           n == Len(f)
           rest == [i \in 0 .. n |-> ends[i + 1] - k]
<1>1. /\ Len(d) = n + 1 /\ n \in Nat /\ \A i \in 1 .. n : f[i] = d[i + 1]
      /\ \A i \in 1 .. n + 1 : d[i] \in Packet
  <2>1. f \in Seq(Packet) /\ Len(f) = Len(d) - 1 /\ \A i \in 1 .. Len(f) : f[i] = d[i + 1]
    BY HeadTailProperties
  <2>2. Len(d) \in Nat /\ n \in Nat
    BY <2>1, LenProperties
  <2>3. Len(d) = n + 1
    BY <2>1, <2>2
  <2> QED
    BY <2>1, <2>2, <2>3, ElementOfSeq
<1> HIDE DEF f, n
<1>2. /\ ends \in [0 .. n + 1 -> 0 .. Len(s)] /\ Len(s) \in Nat
      /\ \A i \in 1 .. n + 1 : ends[i] \in 0 .. Len(s) /\ ends[i - 1] \in 0 .. Len(s)
  <2>1. ends \in [0 .. n + 1 -> 0 .. Len(s)]
    BY <1>1 DEF Lays
  <2>2. \A i \in 1 .. n + 1 : i \in 0 .. n + 1 /\ i - 1 \in 0 .. n + 1
    BY <1>1
  <2> QED
    BY <2>1, <2>2, LenProperties
<1>3. ASSUME NEW i \in 1 .. n + 1
      PROVE  IF d[i].ignore THEN ends[i] = ends[i - 1]
             ELSE /\ d[i].count > 0 /\ ends[i - 1] + d[i].count <= ends[i]
                  /\ Segment(s, ends[i - 1], ends[i], d[i].count)
  BY <1>1 DEF Lays
<1>4. \A i \in 1 .. n + 1 : ends[i - 1] <= ends[i]
  <2> SUFFICES ASSUME NEW i \in 1 .. n + 1 PROVE ends[i - 1] <= ends[i]
    OBVIOUS
  <2>1. d[i].count \in Nat /\ ends[i - 1] \in Nat /\ ends[i] \in Nat
    BY <1>1, <1>2 DEF Packet
  <2>2. CASE d[i].ignore
    BY <2>1, <2>2, <1>3
  <2>3. CASE ~d[i].ignore
    <3>1. ends[i - 1] + d[i].count <= ends[i]
      BY <2>3, <1>3
    <3> QED
      BY <3>1, <2>1
  <2> QED
    BY <2>2, <2>3
<1>5. k \in 0 .. Len(s) /\ \A i \in 1 .. n + 1 : k <= ends[i]
  <2>1. k \in 0 .. Len(s)
    BY <1>1, <1>2
  <2>2. \A i \in 1 .. n + 1 : k <= ends[i]
    <3> DEFINE lower == {i \in 1 .. n + 1 : ends[i] < k}
    <3>0. ASSUME NEW i \in 1 .. n + 1, ~(k <= ends[i]) PROVE lower # {}
      <4>1. ends[i] < k
        BY <3>0, <1>2, <2>1
      <4> QED
        BY <4>1
    <3>1. SUFFICES ASSUME lower # {} PROVE FALSE
      BY <3>0
    <3>2. lower \in SUBSET Nat
      BY <1>1
    <3>3. PICK i \in lower : \A j \in lower : i <= j
      BY <3>1, <3>2, Least
    <3>4. i \in 1 .. n + 1 /\ ends[i] < k
      OBVIOUS
    <3>5. i # 1
      BY <3>4, <2>1, <1>2
    <3>6. i - 1 \in 1 .. n + 1 /\ i - 1 < i
      BY <3>4, <3>5, <1>1
    <3>7. ends[i - 1] < k
      BY <3>4, <1>4, <1>2, <2>1
    <3>8. i - 1 \in lower
      BY <3>6, <3>7
    <3> HIDE DEF lower
    <3> QED
      BY <3>3, <3>4, <3>6, <3>8, <1>1
  <2> QED
    BY <2>1, <2>2
<1>6. /\ u \in Seq(FragmentType) /\ Len(u) = Len(s) - k
      /\ \A x \in 1 .. Len(s) - k : u[x] = s[x + k]
  BY <1>5, Parted, SMTT(30)
<1> HIDE DEF u
<1>7. /\ rest \in [0 .. n -> 0 .. Len(u)] /\ rest[0] = 0
      /\ \A i \in 0 .. n : rest[i] = ends[i + 1] - k
  <2>1. ASSUME NEW i \in 0 .. n PROVE ends[i + 1] - k \in 0 .. Len(u)
    <3>1. i + 1 \in 1 .. n + 1
      BY <1>1
    <3> QED
      BY <3>1, <1>2, <1>5, <1>6
  <2>2. rest[0] = 0
    BY <1>1, <1>2, <1>5
  <2> QED
    BY <2>1, <2>2
<1> HIDE DEF rest
<1>8. ASSUME NEW i \in 1 .. n
      PROVE  IF f[i].ignore THEN rest[i] = rest[i - 1]
             ELSE /\ f[i].count > 0 /\ rest[i - 1] + f[i].count <= rest[i]
                  /\ Segment(u, rest[i - 1], rest[i], f[i].count)
  <2>1. /\ i + 1 \in 1 .. n + 1 /\ i \in 1 .. n + 1 /\ (i + 1) - 1 = i
        /\ i \in 0 .. n /\ i - 1 \in 0 .. n /\ (i - 1) + 1 = i
    BY <1>1
  <2>2. /\ rest[i] = ends[i + 1] - k /\ rest[i - 1] = ends[i] - k /\ f[i] = d[i + 1]
        /\ ends[i + 1] \in 0 .. Len(s) /\ ends[i] \in 0 .. Len(s)
        /\ k <= ends[i] /\ k <= ends[i + 1] /\ d[i + 1].count \in Nat
    BY <2>1, <1>1, <1>2, <1>5, <1>7 DEF Packet
  <2>3. CASE d[i + 1].ignore
    BY <2>1, <2>2, <2>3, <1>3
  <2>4. CASE ~d[i + 1].ignore
    <3>1. /\ d[i + 1].count > 0 /\ ends[i] + d[i + 1].count <= ends[i + 1]
          /\ Segment(s, ends[i], ends[i + 1], d[i + 1].count)
      BY <2>1, <2>4, <1>3
    <3>2. ends[i] \in k .. Len(s) /\ ends[i + 1] \in k .. Len(s)
      BY <2>2, <1>2, <1>5
    <3>3. Segment(u, ends[i] - k, ends[i + 1] - k, d[i + 1].count)
      BY <3>1, <3>2, <2>2, <1>5, SegmentMoves DEF u
    <3>4. (ends[i] - k) + d[i + 1].count <= ends[i + 1] - k
      <4> DEFINE a == ends[i]
                 b == ends[i + 1]
                 c == d[i + 1].count
      <4>1. a \in Int /\ b \in Int /\ c \in Int /\ k \in Int /\ a + c <= b
        BY <3>1, <2>2, <1>2, <1>5, SMTT(30)
      <4> HIDE DEF a, b, c, k
      <4>2. (a - k) + c <= b - k
        BY <4>1
      <4> QED
        BY <4>2 DEF a, b, c
    <3> QED
      BY <3>1, <3>3, <3>4, <2>2, <2>4
  <2> QED
    BY <2>3, <2>4
<1>9. \A x \in 1 .. Len(u) : rest[n] < x => u[x].skipped
  <2>1. \A x \in 1 .. Len(s) : ends[n + 1] < x => s[x].skipped
    BY <1>1 DEF Lays
  <2>2. n + 1 \in 1 .. n + 1 /\ n \in 0 .. n
    BY <1>1
  <2>3. \A x \in 1 .. Len(u) : x + k \in 1 .. Len(s) /\ u[x] = s[x + k]
    BY <1>2, <1>5, <1>6
  <2>4. ends[n + 1] \in 0 .. Len(s) /\ rest[n] = ends[n + 1] - k
    BY <2>2, <1>2, <1>7
  <2>5. \A x \in 1 .. Len(u) : rest[n] < x => ends[n + 1] < x + k
    BY <2>4, <1>2, <1>5, <1>6
  <2> QED
    BY <2>1, <2>3, <2>5
<1>10. Lays(f, u, rest)
  BY <1>7, <1>8, <1>9 DEF Lays, n
<1> QED
  BY <1>10 DEF Laid, f, u

\* Where TransferDataBufferFromNetPacketToNbl begins.
FirstUsed(s) == CHOOSE i \in DOMAIN s : /\ ~s[i].skipped
                                        /\ \A j \in 1 .. i - 1 : s[j].skipped

\* The next packet finds its fragments behind those that are skipped.
LEMMA NextPacket ==
  ASSUME NEW d \in Seq(Packet), NEW s \in Seq(FragmentType), Laid(d, s), d # <<>>
  PROVE  /\ Head(d).ignore => Laid(Tail(d), s)
         /\ ~Head(d).ignore =>
              LET first == FirstUsed(s)
                  next  == first + Head(d).count
              IN /\ first \in 1 .. Len(s) /\ next - 1 \in first .. Len(s)
                 /\ \A i \in 1 .. first - 1 : s[i].skipped
                 /\ \A i \in first .. next - 1 : ~s[i].skipped
                 /\ \A i, j \in first .. next - 1 : s[i].memory = s[j].memory => i = j
                 /\ Laid(Tail(d), SubSeq(s, next, Len(s)))
<1>1. PICK ends : Lays(d, s, ends)
  BY DEF Laid
<1> DEFINE k == ends[1]
           p == Head(d)
<1>2. Len(d) \in Nat \ {0} /\ p = d[1] /\ p \in Packet /\ Len(s) \in Nat /\ DOMAIN s = 1 .. Len(s)
  BY LenProperties, EmptySeq, ElementOfSeq, HeadTailProperties
<1>3. /\ k \in 0 .. Len(s) /\ ends[0] = 0 /\ p.count \in Nat
      /\ IF p.ignore THEN k = 0
         ELSE p.count > 0 /\ p.count <= k /\ Segment(s, 0, k, p.count)
  <2>1. 1 \in 1 .. Len(d) /\ 1 \in 0 .. Len(d) /\ 1 - 1 = 0
    BY <1>2
  <2>2. k \in 0 .. Len(s) /\ ends[0] = 0
    BY <2>1, <1>1 DEF Lays
  <2>3. IF d[1].ignore THEN ends[1] = ends[0]
        ELSE /\ d[1].count > 0 /\ ends[0] + d[1].count <= ends[1]
             /\ Segment(s, ends[0], ends[1], d[1].count)
    BY <2>1, <1>1 DEF Lays
  <2>4. p.count \in Nat
    BY <1>2 DEF Packet
  <2> QED
    BY <2>2, <2>3, <2>4, <1>2
<1>4. Laid(Tail(d), SubSeq(s, k + 1, Len(s)))
  BY <1>1, LaidRest
<1> HIDE DEF k, p
<1>5. ASSUME p.ignore PROVE Laid(Tail(d), s)
  <2>1. SubSeq(s, 1, Len(s)) = s
    BY SubSeqFull
  <2>2. k + 1 = 1
    BY <1>3, <1>5
  <2> QED
    BY <2>1, <2>2, <1>4
<1>6. ASSUME ~p.ignore
      PROVE  LET first == FirstUsed(s)
                 next  == first + p.count
             IN /\ first \in 1 .. Len(s) /\ next - 1 \in first .. Len(s)
                /\ \A i \in 1 .. first - 1 : s[i].skipped
                /\ \A i \in first .. next - 1 : ~s[i].skipped
                /\ \A i, j \in first .. next - 1 : s[i].memory = s[j].memory => i = j
                /\ Laid(Tail(d), SubSeq(s, next, Len(s)))
  <2> DEFINE first == FirstUsed(s)
             f == k - p.count + 1
  <2>1. /\ p.count > 0 /\ p.count <= k /\ f \in 1 .. Len(s)
        /\ \A x \in 1 .. Len(s) : 0 < x /\ x <= k - p.count => s[x].skipped
        /\ \A x \in 1 .. Len(s) : k - p.count < x /\ x <= k => ~s[x].skipped
    <3> DEFINE low == 0
    <3>1. p.count > 0 /\ p.count <= k /\ Segment(s, low, k, p.count)
      BY <1>3, <1>6
    <3>2. f \in 1 .. Len(s)
      BY <3>1, <1>2, <1>3
    <3> HIDE DEF f, low
    <3>3. /\ \A x \in 1 .. Len(s) : low < x /\ x <= k - p.count => s[x].skipped
          /\ \A x \in 1 .. Len(s) : k - p.count < x /\ x <= k => ~s[x].skipped
      BY <3>1, Zenon DEF Segment
    <3> QED
      BY <3>1, <3>2, <3>3 DEF low
  <2>2. ~s[f].skipped /\ \A j \in 1 .. f - 1 : s[j].skipped
    <3>1. k - p.count < f /\ f <= k
      BY <2>1, <1>3
    <3>2. \A j \in 1 .. f - 1 : j \in 1 .. Len(s) /\ 0 < j /\ j <= k - p.count
      BY <2>1, <1>2, <1>3, SMTT(30)
    <3> QED
      BY <3>1, <3>2, <2>1
  <2>3. first \in 1 .. Len(s) /\ ~s[first].skipped /\ \A j \in 1 .. first - 1 : s[j].skipped
    BY <2>1, <2>2, <1>2, Zenon DEF FirstUsed
  <2>4. first = f
    <3>1. ~(first < f)
      <4>1. first < f => first \in 1 .. f - 1
        BY <2>1, <2>3, <1>2, <1>3
      <4> QED
        BY <4>1, <2>2, <2>3
    <3>2. ~(f < first)
      <4>1. f < first => f \in 1 .. first - 1
        BY <2>1, <2>3, <1>2, <1>3
      <4> QED
        BY <4>1, <2>2, <2>3
    <3> QED
      BY <3>1, <3>2, <2>1, <2>3, <1>2
  <2> HIDE DEF first
  <2>5. (first + p.count) - 1 = k /\ first + p.count = k + 1
    BY <2>4, <1>3, SMTT(30)
  <2>6. \A i \in first .. k : i \in 1 .. Len(s) /\ k - p.count < i /\ i <= k
    BY <2>1, <2>4, <1>2, <1>3
  <2>7. \A i \in first .. k : ~s[i].skipped
    BY <2>1, <2>6
  <2>8. \A i, j \in first .. k : s[i].memory = s[j].memory => i = j
    <3> SUFFICES ASSUME NEW i \in first .. k, NEW j \in first .. k, s[i].memory = s[j].memory
                 PROVE  i = j
      BY Zenon
    <3>1. Segment(s, 0, k, p.count)
      BY <1>3, <1>6
    <3> QED
      BY <3>1, <2>6 DEF Segment
  <2>9. k \in first .. Len(s)
    BY <2>1, <2>4, <1>2, <1>3
  <2> QED
    BY <2>3, <2>5, <2>7, <2>8, <2>9, <1>4 DEF first
<1> QED
  BY <1>5, <1>6 DEF p

\* Without packets all fragments are skipped, as they are if all packets are without data.
LEMMA AllSkipped ==
  ASSUME NEW d \in Seq(Packet), NEW s \in Seq(FragmentType), Laid(d, s),
         \A i \in 1 .. Len(d) : d[i].ignore
  PROVE  \A x \in 1 .. Len(s) : s[x].skipped
<1>1. PICK ends : Lays(d, s, ends)
  BY DEF Laid
<1> DEFINE n == Len(d)
<1>2. /\ n \in Nat /\ Len(s) \in Nat /\ ends[0] = 0
      /\ \A i \in 0 .. n : ends[i] \in 0 .. Len(s)
      /\ \A i \in 1 .. n : ends[i] = ends[i - 1]
  BY <1>1, LenProperties DEF Lays
<1> HIDE DEF n
<1>3. ends[n] = 0
  <2> DEFINE later == {i \in 0 .. n : ends[i] # 0}
  <2>1. SUFFICES ASSUME later # {} PROVE FALSE
    BY <1>2, SMTT(30)
  <2>2. later \in SUBSET Nat
    BY <1>2
  <2>3. PICK i \in later : \A j \in later : i <= j
    BY <2>1, <2>2, Least
  <2>4. i \in 1 .. n /\ ends[i] # 0
    BY <1>2
  <2>5. i - 1 \in 0 .. n /\ ends[i - 1] # 0 /\ i - 1 < i
    BY <2>4, <1>2
  <2>6. i - 1 \in later
    BY <2>5
  <2> HIDE DEF later
  <2> QED
    BY <2>3, <2>4, <2>5, <2>6, <1>2
<1>4. \A x \in 1 .. Len(s) : ends[n] < x => s[x].skipped
  BY <1>1 DEF Lays, n
<1> QED
  BY <1>2, <1>3, <1>4

-----------------------------------------------------------------------------
(* One element more, and one less.                                          *)
LEMMA Appended ==
  ASSUME NEW S, NEW s \in Seq(S), NEW e \in S
  PROVE  /\ Append(s, e) = s \o <<e>>
         /\ Held(Append(s, e)) = Held(s) \cup ({e} \ {None})
         /\ Sole(s) /\ e \notin Held(s) => Sole(Append(s, e))
<1>1. Append(s, e) = s \o <<e>> /\ <<e>> \in Seq(S)
  BY AppendIsConcat
<1>2. Sole(<<e>>) /\ Held(<<e>>) = {e} \ {None}
  BY OneElement
<1> DEFINE one == <<e>>
<1> HIDE DEF one
<1>3. /\ Held(s \o one) = Held(s) \cup Held(one)
      /\ Sole(s) /\ Sole(one) /\ Held(s) \cap Held(one) = {} => Sole(s \o one)
  <2>1. one \in Seq(S)
    BY <1>1 DEF one
  <2> QED
    BY <2>1, Concatenated
<1> QED
  BY <1>1, <1>2, <1>3 DEF one

LEMMA Shortened ==
  ASSUME NEW S, NEW s \in Seq(S), s # <<>>
  PROVE  /\ Held(s) = ({Head(s)} \ {None}) \cup Held(Tail(s))
         /\ Tail(s) = SubSeq(s, 2, Len(s)) /\ Tail(s) \in Seq(S) /\ Head(s) \in S
         /\ Sole(s) => Sole(Tail(s)) /\ Head(s) \notin Held(Tail(s))
<1>1. /\ Len(s) \in Nat \ {0} /\ Head(s) = s[1] /\ Head(s) \in S /\ Tail(s) \in Seq(S)
      /\ Len(Tail(s)) = Len(s) - 1 /\ \A i \in 1 .. Len(s) - 1 : Tail(s)[i] = s[i + 1]
  BY HeadTailProperties, LenProperties, EmptySeq
<1> DEFINE a == SubSeq(s, 1, 1)
           b == SubSeq(s, 1 + 1, Len(s))
<1>2. 1 \in 0 .. Len(s)
  BY <1>1
<1>3. /\ a \in Seq(S) /\ b \in Seq(S) /\ Len(a) = 1 /\ Len(b) = Len(s) - 1
      /\ \A i \in 1 .. 1 : a[i] = s[i]
      /\ \A i \in 1 .. Len(s) - 1 : b[i] = s[i + 1]
      /\ Held(s) = Held(a) \cup Held(b)
      /\ Sole(s) => Sole(a) /\ Sole(b) /\ Held(a) \cap Held(b) = {}
  <2> DEFINE k == 1
  <2>1. k \in 0 .. Len(s)
    BY <1>2
  <2> HIDE DEF k
  <2>2. LET c == SubSeq(s, 1, k)
            d == SubSeq(s, k + 1, Len(s))
        IN /\ c \in Seq(S) /\ d \in Seq(S) /\ Len(c) = k /\ Len(d) = Len(s) - k
           /\ \A i \in 1 .. k : c[i] = s[i]
           /\ \A i \in 1 .. Len(s) - k : d[i] = s[i + k]
           /\ Held(s) = Held(c) \cup Held(d)
           /\ Sole(s) => Sole(c) /\ Sole(d) /\ Held(c) \cap Held(d) = {}
    BY <2>1, Parted
  <2> QED
    BY <2>2 DEF k
<1>4. b = SubSeq(s, 2, Len(s))
  OBVIOUS
<1> HIDE DEF a, b
<1>5. b = Tail(s)
  BY <1>1, <1>3, SeqEqual
<1>6. DOMAIN a = {1} /\ a[1] = Head(s)
  BY <1>1, <1>3, LenProperties
<1>7. Held(a) = {Head(s)} \ {None}
  BY <1>6 DEF Held, ToSet
<1>8. ASSUME Sole(s) PROVE Head(s) \notin Held(Tail(s))
  BY <1>3, <1>5, <1>7, <1>8, InHeld
<1> QED
  BY <1>1, <1>3, <1>4, <1>5, <1>7, <1>8

LEMMA ColumnsOfMore ==
  ASSUME NEW R, NEW s \in Seq(R), NEW e \in R, NEW f, NEW V, Fielded(R, f, V)
  PROVE  Column(Append(s, e), f) = Append(Column(s, f), e[f])
<1>1. Append(s, e) = s \o <<e>> /\ <<e>> \in Seq(R)
  BY AppendIsConcat
<1>2. Column(s \o <<e>>, f) = Column(s, f) \o Column(<<e>>, f)
  <2> DEFINE one == <<e>>
  <2>1. one \in Seq(R)
    BY <1>1
  <2> HIDE DEF one
  <2>2. Column(s \o one, f) = Column(s, f) \o Column(one, f)
    BY <2>1, ColumnOfConcat
  <2> QED
    BY <2>2 DEF one
<1>3. Column(<<e>>, f) = <<e[f]>>
  BY DEF Column
<1>4. Column(s, f) \in Seq(V) /\ e[f] \in V
  BY ColumnIs DEF Fielded
<1>5. Append(Column(s, f), e[f]) = Column(s, f) \o <<e[f]>>
  BY <1>4, AppendIsConcat
<1> QED
  BY <1>1, <1>2, <1>3, <1>5

LEMMA ColumnsOfLess ==
  ASSUME NEW R, NEW s \in Seq(R), s # <<>>, NEW f, NEW V, Fielded(R, f, V)
  PROVE  /\ Column(Tail(s), f) = Tail(Column(s, f)) /\ Column(s, f) # <<>>
         /\ Head(Column(s, f)) = Head(s)[f]
<1>0. Len(s) \in Nat \ {0} /\ Head(s) = s[1]
  BY LenProperties, EmptySeq, HeadTailProperties
<1>1. 1 \in 0 .. Len(s) /\ Tail(s) = SubSeq(s, 1 + 1, Len(s))
  BY <1>0, Shortened
<1>2. Column(SubSeq(s, 1 + 1, Len(s)), f) = SubSeq(Column(s, f), 1 + 1, Len(s))
  BY <1>1, ColumnOfRest
<1> DEFINE c == Column(s, f)
<1>3. c \in Seq(V) /\ Len(c) = Len(s) /\ c[1] = s[1][f]
  BY <1>0, ColumnIs
<1> HIDE DEF c
<1>4. c # <<>>
  BY <1>0, <1>3, EmptySeq
<1>5. Tail(c) = SubSeq(c, 1 + 1, Len(c))
  BY <1>3, <1>4, Shortened
<1>6. Head(c) = c[1]
  BY <1>3, <1>4, HeadTailProperties
<1> QED
  BY <1>0, <1>1, <1>2, <1>3, <1>4, <1>5, <1>6 DEF c

-----------------------------------------------------------------------------
(* How often something is in a list.                                        *)
LEMMA HowOften ==
  ASSUME NEW S, NEW s \in Seq(S), NEW x, x # None
  PROVE  /\ Places(s, x) \in Nat /\ IsFiniteSet({i \in DOMAIN s : s[i] = x})
         /\ Places(s, x) = 0 <=> x \notin Held(s)
         /\ Sole(s) => Places(s, x) = IF x \in Held(s) THEN 1 ELSE 0
<1> DEFINE at == {i \in DOMAIN s : s[i] = x}
<1>1. IsFiniteSet(at)
  <2>1. at \subseteq 1 .. Len(s) /\ Len(s) \in Nat
    BY LenProperties
  <2> QED
    BY <2>1, FS_Interval, FS_Subset
<1>2. Cardinality(at) \in Nat /\ (Cardinality(at) = 0 <=> at = {})
  BY <1>1, FS_CardinalityType, FS_EmptySet
<1>3. at = {} <=> x \notin Held(s)
  BY InHeld
<1>4. ASSUME Sole(s), x \in Held(s) PROVE Cardinality(at) = 1
  <2>1. PICK i \in DOMAIN s : s[i] = x
    BY <1>4, InHeld
  <2>2. at = {i}
    BY <2>1, <1>4 DEF Sole
  <2> QED
    BY <2>2, FS_Singleton
<1> QED
  BY <1>1, <1>2, <1>3, <1>4 DEF Places

LEMMA HowOftenInBoth ==
  ASSUME NEW S, NEW s \in Seq(S), NEW t \in Seq(S), NEW x, x # None
  PROVE  Places(s \o t, x) = Places(s, x) + Places(t, x)
<1> DEFINE u == s \o t
           inS == {i \in DOMAIN s : s[i] = x}
           inT == {i \in DOMAIN t : t[i] = x}
           after == {i \in DOMAIN u : i > Len(s) /\ u[i] = x}
<1>1. /\ DOMAIN s = 1 .. Len(s) /\ DOMAIN t = 1 .. Len(t) /\ DOMAIN u = 1 .. Len(s) + Len(t)
      /\ Len(s) \in Nat /\ Len(t) \in Nat
      /\ \A i \in 1 .. Len(s) + Len(t) : u[i] = IF i <= Len(s) THEN s[i] ELSE t[i - Len(s)]
  BY ConcatProperties, LenProperties
<1> HIDE DEF u
<1>2. IsFiniteSet(inS) /\ IsFiniteSet(inT)
  BY HowOften
<1>3. {i \in DOMAIN u : u[i] = x} = inS \cup after
  BY <1>1
<1>4. inS \cap after = {}
  BY <1>1
<1>5. IsFiniteSet(after) /\ Cardinality(after) = Cardinality(inT)
  <2> DEFINE g == [i \in inT |-> i + Len(s)]
  <2>1. \A i \in inT : i + Len(s) \in after
    <3> SUFFICES ASSUME NEW i \in inT PROVE i + Len(s) \in after
      OBVIOUS
    <3>1. /\ i + Len(s) \in 1 .. Len(s) + Len(t) /\ i + Len(s) > Len(s)
          /\ (i + Len(s)) - Len(s) = i
      BY <1>1
    <3> QED
      BY <3>1, <1>1
  <2>2. \A j \in after : j - Len(s) \in inT /\ (j - Len(s)) + Len(s) = j
    BY <1>1
  <2>3. g \in Bijection(inT, after)
    <3>1. g \in [inT -> after]
      BY <2>1
    <3>2. \A i, j \in inT : i # j => g[i] # g[j]
      BY <1>1
    <3>3. \A j \in after : \E i \in inT : g[i] = j
      BY <2>2
    <3> QED
      BY <3>1, <3>2, <3>3 DEF Bijection, Injection, Surjection, IsInjective
  <2>4. ExistsBijection(inT, after)
    BY <2>3 DEF ExistsBijection
  <2> HIDE DEF g, inT, after
  <2> QED
    BY <2>4, <1>2, FS_Bijection
<1>6. Cardinality(inS \cup after) = Cardinality(inS) + Cardinality(after)
  <2> HIDE DEF inS, after
  <2>1. Cardinality(inS \cap after) = 0
    BY <1>4, FS_EmptySet
  <2>2. Cardinality(inS \cup after)
          = Cardinality(inS) + Cardinality(after) - Cardinality(inS \cap after)
    BY <1>2, <1>5, FS_Union
  <2>3. Cardinality(inS) \in Nat /\ Cardinality(after) \in Nat
    BY <1>2, <1>5, FS_CardinalityType
  <2> QED
    BY <2>1, <2>2, <2>3
<1> QED
  BY <1>3, <1>5, <1>6 DEF Places, u

LEMMA HowOftenInParts ==
  ASSUME NEW S, NEW s \in Seq(S), NEW k \in 0 .. Len(s), NEW x, x # None
  PROVE  Places(s, x) = Places(SubSeq(s, 1, k), x) + Places(SubSeq(s, k + 1, Len(s)), x)
<1> DEFINE a == SubSeq(s, 1, k)
           b == SubSeq(s, k + 1, Len(s))
<1>1. /\ a \in Seq(S) /\ b \in Seq(S) /\ Len(a) = k /\ Len(b) = Len(s) - k
      /\ \A i \in 1 .. k : a[i] = s[i]
      /\ \A i \in 1 .. Len(s) - k : b[i] = s[i + k]
  BY Parted
<1> HIDE DEF a, b
<1>2. /\ a \o b \in Seq(S) /\ Len(a \o b) = Len(a) + Len(b)
      /\ \A i \in 1 .. Len(a) + Len(b) : (a \o b)[i] = IF i <= Len(a) THEN a[i] ELSE b[i - Len(a)]
  BY <1>1, ConcatProperties
<1>3. Len(s) \in Nat /\ k \in Nat /\ Len(a) + Len(b) = Len(s)
  BY <1>1, LenProperties
<1>4. ASSUME NEW i \in 1 .. Len(s) PROVE s[i] = (a \o b)[i]
  <2>1. CASE i <= k
    BY <2>1, <1>1, <1>2, <1>3
  <2>2. CASE ~(i <= k)
    <3>1. i - k \in 1 .. Len(s) - k /\ (i - k) + k = i
      BY <2>2, <1>3
    <3> QED
      BY <3>1, <2>2, <1>1, <1>2, <1>3
  <2> QED
    BY <2>1, <2>2
<1>5. s = a \o b
  BY <1>2, <1>3, <1>4, SeqEqual
<1>6. Places(a \o b, x) = Places(a, x) + Places(b, x)
  BY <1>1, HowOftenInBoth
<1> QED
  BY <1>5, <1>6 DEF a, b

-----------------------------------------------------------------------------
(* The invariant.                                                           *)

\* What the driver is offered for its fragments.
Offers(m) == IF m = "ALLOCATE" THEN {None} ELSE Buffers

\* A fragment is skipped if and only if it has no memory; the MDL of a data buffer is the
\* one of its index.
Fragments(m) == {x \in FragmentType : /\ x.skipped => x.memory = None
                                      /\ x.memory = None => x.skipped
                                      /\ m = "ALLOCATE" => x.mdl = x.memory
                                      /\ m # "ALLOCATE" => x.mdl # None}
Parts(m) == {x \in [mdl : Buffers, memory : Buffers] : m = "ALLOCATE" => x.mdl = x.memory}

TypeInv ==
  /\ mode \in Modes /\ mode \in {"DRIVER", "ATTACH", "ALLOCATE"}
  /\ life \in {"stopped", "opened", "started", "closing", "stopping"}
  /\ pc \in {"idle", "prepare", "post", "advance", "indicate", "recover"}
  /\ readyToStop \in BOOLEAN /\ awake \in BOOLEAN /\ sharing \in BOOLEAN
  /\ posted \in Seq(Nbls) /\ drained \in Seq(Packet) /\ batch \in Seq(Nbls)
  /\ offered \in Seq(Offers(mode)) /\ filled \in Seq(Fragments(mode))
  /\ bufferRing \in Seq(Buffers) /\ letGo \in Seq(Buffers)
  /\ driverMemory \in SUBSET Buffers /\ mdlPool \in SUBSET Buffers
  /\ nblPool \in SUBSET Nbls /\ returned \in SUBSET Nbls /\ discarded \in SUBSET Nbls
  /\ chain \in [Nbls -> SUBSET Parts(mode)]
  /\ free \in SUBSET Buffers /\ osOwned \in SUBSET Buffers /\ leftOver \in SUBSET Buffers
  /\ refs \in [Buffers -> Int]
  /\ indicated \in SUBSET SUBSET Nbls /\ {} \notin indicated
  /\ gateOpen \in BOOLEAN

\* Each NBL is in one place.
NblWhere == {"pool", "posted", "drained", "batch", "ndis", "returned", "discarded"}
NblAt == [pool |-> nblPool, posted |-> Held(posted), drained |-> Held(Column(drained, "nbl")),
          batch |-> Held(batch), ndis |-> UNION indicated, returned |-> returned,
          discarded |-> discarded]
Disjoint(units) == \A u, v \in units : u \cap v # {} => u = v
NblInv ==
  /\ Placed(NblAt, NblWhere, Nbls)
  /\ Sole(posted) /\ Sole(Column(drained, "nbl")) /\ Sole(batch)
  /\ Disjoint(indicated)

\* Only an NBL that carries a packet has memory.
ChainInv == \A n \in Nbls \ Carriers : chain[n] = {}

LayoutInv == Laid(drained, filled)

\* Each MDL is in one place, and so is each piece of memory of the driver.
Four(a, b, c, d) == Placed(<<a, b, c, d>>, 1 .. 4, Buffers)
InChains(c, f) == {b \in Buffers : \E n \in Nbls : \E part \in c[n] : part[f] = b}
Unshared(c, f) == \A n, m \in Nbls : \A p \in c[n], q \in c[m] : p[f] = q[f] => n = m
OneBuffer(f, pool, held, s, c) ==
  Four(pool, held, Held(s), InChains(c, f)) /\ Sole(s) /\ Unshared(c, f)
MdlInv ==
  mode # "ALLOCATE" =>
    Sole(offered) /\ OneBuffer("mdl", mdlPool, Held(offered), Column(filled, "mdl"), chain)
DriverMemoryInv ==
  mode = "DRIVER" => OneBuffer("memory", driverMemory, {}, Column(filled, "memory"), chain)

\* The data buffers of the pool and who has references to them.
InFragments(s, b) == Places(Column(s, "memory"), b)
InNbls(c, b) == Cardinality({n \in Nbls : \E part \in c[n] : part.memory = b})
PoolInv ==
  mode = "ALLOCATE" =>
    /\ Four(free, Held(bufferRing), Held(letGo), osOwned)
    /\ Sole(bufferRing) /\ Sole(letGo)
    /\ pc # "advance" => letGo = <<>>
    /\ life \in {"stopped", "opened"} => bufferRing = <<>>

\* Every reference is counted, once the poll function has seen the fragment: at least once, and
\* exactly once for the buffers of which no fragment was left over.
CountInv ==
  mode = "ALLOCATE" =>
    /\ \A b \in Buffers :
         refs[b] >= InNbls(chain, b) + (IF pc = "advance" THEN 0 ELSE InFragments(filled, b))
    /\ \A b \in Buffers \ leftOver :
         refs[b] = InNbls(chain, b) + (IF pc = "advance" THEN 0 ELSE InFragments(filled, b))
    /\ \A b \in free : InNbls(chain, b) = 0 /\ InFragments(filled, b) = 0
    /\ \A b \in osOwned : refs[b] > 0
    /\ \A b \in Held(letGo) : InFragments(filled, b) > 0

\* Between two polls, only what was left over is in the ring.
LeftInv ==
  mode = "ALLOCATE" /\ pc \notin {"advance", "indicate"} =>
    \A b \in Buffers \ leftOver : InFragments(filled, b) = 0

\* What the stages of the data path and of the poll function have reached.
LifeInv ==
  /\ gateOpen => life \in {"opened", "started"}
  /\ life \in {"opened", "started"} => gateOpen
  /\ life = "stopping" => indicated = {}
  /\ pc # "indicate" => batch = <<>>
  /\ mode = "ALLOCATE" => mdlPool = Buffers
  /\ life \in {"stopped", "opened"} =>
       /\ pc = "idle" /\ ~readyToStop /\ nblPool = Nbls /\ mdlPool = Buffers
       /\ offered = <<>> /\ filled = <<>>
  /\ pc = "recover" => /\ life = "stopping" /\ posted = <<>> /\ offered = <<>>
                       /\ returned = {} /\ discarded = {}
  /\ readyToStop => /\ life = "stopping" /\ pc \in {"idle", "recover"}
                    /\ nblPool = Nbls /\ mdlPool = Buffers /\ offered = <<>> /\ filled = <<>>

\* The gate counts the units that NDIS holds.
RundownInv == rundown = Cardinality(indicated)

\* Who owns what, and how often a data buffer is referenced.
OwnersInv ==
  /\ TypeInv /\ NblInv /\ ChainInv /\ LayoutInv /\ MdlInv /\ DriverMemoryInv /\ PoolInv
  /\ LifeInv /\ RundownInv
DataBufferInv == CountInv /\ LeftInv

-----------------------------------------------------------------------------
(* Lists made element by element.                                           *)

LEMMA ElementByElement ==
  ASSUME NEW S, NEW n \in Nat, NEW s \in [1 .. n -> S]
  PROVE  s \in Seq(S) /\ Len(s) = n /\ DOMAIN s = 1 .. n
  BY SeqDef, LenProperties

LEMMA SubTypes ==
  ASSUME NEW m
  PROVE  /\ Fragments(m) \subseteq FragmentType
         /\ Seq(Fragments(m)) \subseteq Seq(FragmentType)
         /\ Fielded(Fragments(m), "mdl", Memory) /\ Fielded(Fragments(m), "memory", Memory)
<1>1. Fragments(m) \subseteq FragmentType
  BY DEF Fragments
<1>2. ASSUME NEW s \in Seq(Fragments(m)) PROVE s \in Seq(FragmentType)
  <2>1. s \in [1 .. Len(s) -> Fragments(m)] /\ Len(s) \in Nat
    BY LenProperties
  <2>2. s \in [1 .. Len(s) -> FragmentType]
    BY <1>1, <2>1
  <2> QED
    BY <2>1, <2>2, ElementByElement
<1>3. Fielded(Fragments(m), "mdl", Memory) /\ Fielded(Fragments(m), "memory", Memory)
  BY <1>1 DEF Fielded, FragmentType
<1> QED
  BY <1>1, <1>2, <1>3

LEMMA NothingHeld ==
  ASSUME NEW s, \A i \in DOMAIN s : s[i] = None
  PROVE  Held(s) = {} /\ Sole(s)
  BY InHeld DEF Sole

LEMMA NobodyIsNone ==
  /\ \A s \in Seq(Nbls) : ToSet(s) = Held(s) /\ Held(s) \subseteq Nbls
  /\ \A s \in Seq(Buffers) : ToSet(s) = Held(s) /\ Held(s) \subseteq Buffers
  /\ \A s \in Seq(Memory) : Held(s) \subseteq Buffers
<1>1. ASSUME NEW s \in Seq(Nbls) PROVE ToSet(s) \subseteq Nbls
  BY LenProperties, ElementOfSeq DEF ToSet
<1>2. ASSUME NEW s \in Seq(Buffers) PROVE ToSet(s) \subseteq Buffers
  BY LenProperties, ElementOfSeq DEF ToSet
<1>3. ASSUME NEW s \in Seq(Memory) PROVE ToSet(s) \subseteq Memory
  BY LenProperties, ElementOfSeq DEF ToSet
<1> QED
  BY <1>1, <1>2, <1>3, NullIsNobody DEF Held, Memory

\* What the lists are, seen by column.
LEMMA ColumnTypes ==
  ASSUME TypeInv
  PROVE  /\ filled \in Seq(FragmentType) /\ offered \in Seq(Memory)
         /\ Column(drained, "nbl") \in Seq(Nbls)
         /\ Column(filled, "mdl") \in Seq(Memory) /\ Column(filled, "memory") \in Seq(Memory)
         /\ IsFiniteSet(nblPool) /\ IsFiniteSet(mdlPool) /\ IsFiniteSet(free)
         /\ IsFiniteSet(driverMemory)
         /\ None \notin nblPool /\ None \notin mdlPool /\ None \notin free
         /\ None \notin driverMemory
<1>1. filled \in Seq(FragmentType)
  BY SubTypes DEF TypeInv
<1>2. offered \in Seq(Memory)
  <2>1. offered \in [1 .. Len(offered) -> Offers(mode)] /\ Len(offered) \in Nat
    BY LenProperties DEF TypeInv
  <2>2. Offers(mode) \subseteq Memory
    BY DEF Offers, Memory
  <2>3. offered \in [1 .. Len(offered) -> Memory]
    BY <2>1, <2>2
  <2> QED
    BY <2>1, <2>3, ElementByElement
<1>3. Column(drained, "nbl") \in Seq(Nbls)
  BY ColumnIs, Fields DEF TypeInv
<1>4. Column(filled, "mdl") \in Seq(Memory) /\ Column(filled, "memory") \in Seq(Memory)
  BY <1>1, ColumnIs, Fields
<1>5. /\ IsFiniteSet(nblPool) /\ IsFiniteSet(mdlPool) /\ IsFiniteSet(free)
      /\ IsFiniteSet(driverMemory)
  BY FinitelyMany, FS_Subset DEF TypeInv
<1>6. /\ None \notin nblPool /\ None \notin mdlPool /\ None \notin free
      /\ None \notin driverMemory
  BY NullIsNobody DEF TypeInv
<1> QED
  BY <1>1, <1>2, <1>3, <1>4, <1>5, <1>6

-----------------------------------------------------------------------------
(* What the handlers move.                                                  *)

\* EvtCancel gives back packets without data and fragments without memory.
LEMMA GivenBack ==
  ASSUME TypeInv
  PROVE  LET p == [i \in DOMAIN posted |-> Ignored(posted[i])]
             t == [i \in DOMAIN offered |-> SkippedFragment(offered[i])]
         IN /\ p \in Seq(Packet) /\ \A i \in 1 .. Len(p) : p[i].ignore
            /\ Column(p, "nbl") = posted
            /\ t \in Seq(Fragments(mode)) /\ \A i \in 1 .. Len(t) : t[i].skipped
            /\ Column(t, "mdl") = offered /\ \A i \in DOMAIN t : Column(t, "memory")[i] = None
            /\ Held(Column(t, "memory")) = {} /\ Sole(Column(t, "memory"))
<1> DEFINE p == [i \in DOMAIN posted |-> Ignored(posted[i])]
           t == [i \in DOMAIN offered |-> SkippedFragment(offered[i])]
<1>1. /\ DOMAIN posted = 1 .. Len(posted) /\ Len(posted) \in Nat
      /\ \A i \in 1 .. Len(posted) : posted[i] \in Nbls
      /\ DOMAIN offered = 1 .. Len(offered) /\ Len(offered) \in Nat
      /\ \A i \in 1 .. Len(offered) : offered[i] \in Offers(mode)
  BY LenProperties, ElementOfSeq DEF TypeInv
<1>2. p \in [1 .. Len(posted) -> Packet]
  BY <1>1 DEF Ignored, Packet
<1>3. p \in Seq(Packet) /\ Len(p) = Len(posted)
  BY <1>1, <1>2, ElementByElement
<1>4. Column(p, "nbl") = posted
  <2>1. posted = [i \in 1 .. Len(posted) |-> posted[i]]
    BY <1>1, LenProperties DEF TypeInv
  <2> QED
    BY <1>1, <2>1 DEF Column, Ignored
<1>5. \A i \in 1 .. Len(p) : p[i].ignore
  BY <1>1, <1>3 DEF Ignored
<1>6. t \in [1 .. Len(offered) -> Fragments(mode)]
  BY <1>1, NullIsNobody DEF SkippedFragment, Fragments, FragmentType, Offers, Memory
<1>7. t \in Seq(Fragments(mode)) /\ Len(t) = Len(offered)
  BY <1>1, <1>6, ElementByElement
<1>8. Column(t, "mdl") = offered
  <2>1. offered = [i \in 1 .. Len(offered) |-> offered[i]]
    BY <1>1, LenProperties DEF TypeInv
  <2> QED
    BY <1>1, <2>1 DEF Column, SkippedFragment
<1>9. \A i \in 1 .. Len(t) : t[i].skipped
  BY <1>1, <1>7 DEF SkippedFragment
<1>10. DOMAIN Column(t, "memory") = DOMAIN t /\ \A i \in DOMAIN t : Column(t, "memory")[i] = None
  BY <1>1 DEF Column, SkippedFragment
<1> HIDE DEF p, t
<1>11. Held(Column(t, "memory")) = {} /\ Sole(Column(t, "memory"))
  BY <1>10, NothingHeld
<1> QED
  BY <1>3, <1>4, <1>5, <1>7, <1>8, <1>9, <1>10, <1>11 DEF p, t

\* A packet with data takes the next fragments, and memory from where the driver has it.
LEMMA WithMemory ==
  ASSUME TypeInv, NEW count \in 1 .. SmallerOf(MaxFragments, Len(offered)),
         mode = "DRIVER" => count <= Cardinality(driverMemory),
         mode = "ALLOCATE" => count <= Len(bufferRing)
  PROVE  LET t == Attached(count)
         IN /\ count \in 1 .. Len(offered) /\ t \in Seq(Fragments(mode)) /\ Len(t) = count
            /\ \A i \in 1 .. count : ~t[i].skipped
            /\ mode # "ALLOCATE" => Column(t, "mdl") = SubSeq(offered, 1, count)
            /\ mode = "DRIVER" => Column(t, "memory") = Popped(driverMemory, count)
            /\ mode = "ATTACH" => Column(t, "memory") = SubSeq(offered, 1, count)
            /\ mode = "ALLOCATE" => Column(t, "memory") = SubSeq(bufferRing, 1, count)
<1> DEFINE t == Attached(count)
           own == Popped(driverMemory, count)
           some == SubSeq(offered, 1, count)
           first == SubSeq(bufferRing, 1, count)
<1>0. Len(offered) \in Nat /\ Len(bufferRing) \in Nat /\ MaxFragments \in Nat
  BY LenProperties, SizesAreNumbers DEF TypeInv
<1>1. count \in 1 .. Len(offered) /\ count \in Nat
  BY <1>0 DEF SmallerOf
<1>2. some \in Seq(Offers(mode)) /\ Len(some) = count /\ \A i \in 1 .. count : some[i] = offered[i]
  BY <1>0, <1>1, Parted DEF TypeInv
<1>3. ASSUME mode = "DRIVER"
      PROVE  own \in Seq(driverMemory) /\ Len(own) = count
  <2>1. count \in Int /\ count <= Cardinality(driverMemory) /\ count >= 0
    BY <1>1, <1>3
  <2> QED
    BY <2>1, ColumnTypes, PoppedFromPool
<1>4. ASSUME mode = "ALLOCATE"
      PROVE  /\ first \in Seq(Buffers) /\ Len(first) = count
             /\ \A i \in 1 .. count : first[i] = bufferRing[i]
  <2>1. count \in 0 .. Len(bufferRing)
    BY <1>0, <1>1, <1>4
  <2> QED
    BY <2>1, Parted DEF TypeInv
<1> HIDE DEF own, some, first
<1>5. /\ \A i \in 1 .. count : some[i] \in Offers(mode)
      /\ mode = "DRIVER" => \A i \in 1 .. count : own[i] \in Buffers
      /\ mode = "ALLOCATE" => \A i \in 1 .. count : first[i] \in Buffers
  BY <1>2, <1>3, <1>4, ElementOfSeq DEF TypeInv
<1>6. /\ mode = "DRIVER" => t = [i \in 1 .. count |-> Fragment(some[i], own[i])]
      /\ mode = "ATTACH" => t = [i \in 1 .. count |-> Fragment(some[i], some[i])]
      /\ mode = "ALLOCATE" => t = [i \in 1 .. count |-> Fragment(first[i], first[i])]
  BY <1>2, <1>4 DEF Attached, own
<1> HIDE DEF t
<1>7. t \in [1 .. count -> Fragments(mode)] /\ \A i \in 1 .. count : ~t[i].skipped
  <2>1. ASSUME NEW x \in Buffers, NEW y \in Buffers, mode = "ALLOCATE" => x = y
        PROVE  Fragment(x, y) \in Fragments(mode) /\ ~Fragment(x, y).skipped
    BY <2>1, NullIsNobody DEF Fragment, Fragments, FragmentType, Memory
  <2>2. CASE mode = "DRIVER"
    <3>1. \A i \in 1 .. count : some[i] \in Buffers /\ own[i] \in Buffers
      BY <2>2, <1>5 DEF Offers
    <3>2. t = [i \in 1 .. count |-> Fragment(some[i], own[i])]
      BY <2>2, <1>6
    <3> QED
      BY <3>1, <3>2, <2>1, <2>2
  <2>3. CASE mode = "ATTACH"
    <3>1. \A i \in 1 .. count : some[i] \in Buffers
      BY <2>3, <1>5 DEF Offers
    <3>2. t = [i \in 1 .. count |-> Fragment(some[i], some[i])]
      BY <2>3, <1>6
    <3> QED
      BY <3>1, <3>2, <2>1
  <2>4. CASE mode = "ALLOCATE"
    <3>1. \A i \in 1 .. count : first[i] \in Buffers
      BY <2>4, <1>5
    <3>2. t = [i \in 1 .. count |-> Fragment(first[i], first[i])]
      BY <2>4, <1>6
    <3> QED
      BY <3>1, <3>2, <2>1
  <2> QED
    BY <2>2, <2>3, <2>4 DEF TypeInv
<1>8. t \in Seq(Fragments(mode)) /\ Len(t) = count
  BY <1>1, <1>7, ElementByElement
<1>9. ASSUME NEW S, NEW s \in Seq(S), Len(s) = count, NEW f,
             \A i \in 1 .. count : t[i][f] = s[i]
      PROVE  Column(t, f) = s
  <2>1. s = [i \in 1 .. count |-> s[i]] /\ DOMAIN t = 1 .. count
    BY <1>7, <1>9, LenProperties
  <2> QED
    BY <2>1, <1>9 DEF Column
<1>10. mode # "ALLOCATE" => Column(t, "mdl") = some
  <2>1. mode # "ALLOCATE" => \A i \in 1 .. count : t[i]["mdl"] = some[i]
    BY <1>6 DEF Fragment, TypeInv
  <2> QED
    BY <2>1, <1>2, <1>9
<1>11. mode = "DRIVER" => Column(t, "memory") = own
  <2>1. mode = "DRIVER" => \A i \in 1 .. count : t[i]["memory"] = own[i]
    BY <1>6 DEF Fragment
  <2> QED
    BY <2>1, <1>3, <1>9
<1>12. mode = "ATTACH" => Column(t, "memory") = some
  <2>1. mode = "ATTACH" => \A i \in 1 .. count : t[i]["memory"] = some[i]
    BY <1>6 DEF Fragment
  <2> QED
    BY <2>1, <1>2, <1>9
<1>13. mode = "ALLOCATE" => Column(t, "memory") = first
  <2>1. mode = "ALLOCATE" => \A i \in 1 .. count : t[i]["memory"] = first[i]
    BY <1>6 DEF Fragment
  <2> QED
    BY <2>1, <1>4, <1>9
<1> QED
  BY <1>1, <1>7, <1>8, <1>10, <1>11, <1>12, <1>13 DEF t, own, some, first

\* A list in three parts.
LEMMA InThree ==
  ASSUME NEW S, NEW s \in Seq(S), NEW first \in 1 .. Len(s), NEW last \in first .. Len(s)
  PROVE  LET a == SubSeq(s, 1, first - 1)
             b == SubSeq(s, first, last)
             c == SubSeq(s, last + 1, Len(s))
         IN /\ a \in Seq(S) /\ b \in Seq(S) /\ c \in Seq(S)
            /\ Len(a) = first - 1 /\ Len(b) = last - first + 1
            /\ \A i \in 1 .. first - 1 : a[i] = s[i]
            /\ \A i \in 1 .. last - first + 1 : b[i] = s[i + (first - 1)]
            /\ Held(s) = Held(a) \cup Held(b) \cup Held(c)
            /\ Sole(s) => /\ Sole(a) /\ Sole(b) /\ Sole(c)
                          /\ Held(a) \cap Held(b) = {} /\ Held(a) \cap Held(c) = {}
                          /\ Held(b) \cap Held(c) = {}
            /\ \A x : x # None => Places(s, x) = Places(a, x) + Places(b, x) + Places(c, x)
            /\ SubSeq(SubSeq(s, 1, last), 1, first - 1) = a
            /\ SubSeq(SubSeq(s, 1, last), first, last) = b
<1> DEFINE u == SubSeq(s, 1, last)
           k == first - 1
           a == SubSeq(s, 1, k)
           b == SubSeq(s, first, last)
           c == SubSeq(s, last + 1, Len(s))
           d == SubSeq(u, 1, k)
           e == SubSeq(u, k + 1, Len(u))
<1>1. /\ Len(s) \in Nat /\ last \in 0 .. Len(s) /\ k \in 0 .. Len(s) /\ k \in 0 .. last
      /\ k + 1 = first
  BY LenProperties
<1>2. /\ u \in Seq(S) /\ c \in Seq(S) /\ Len(u) = last /\ \A i \in 1 .. last : u[i] = s[i]
      /\ Held(s) = Held(u) \cup Held(c)
      /\ Sole(s) => Sole(u) /\ Sole(c) /\ Held(u) \cap Held(c) = {}
      /\ \A x : x # None => Places(s, x) = Places(u, x) + Places(c, x)
  <2>1. /\ u \in Seq(S) /\ c \in Seq(S) /\ Len(u) = last /\ \A i \in 1 .. last : u[i] = s[i]
        /\ Held(s) = Held(u) \cup Held(c)
        /\ Sole(s) => Sole(u) /\ Sole(c) /\ Held(u) \cap Held(c) = {}
    BY <1>1, Parted
  <2>2. ASSUME NEW x, x # None PROVE Places(s, x) = Places(u, x) + Places(c, x)
    BY <1>1, <2>2, HowOftenInParts
  <2> QED
    BY <2>1, <2>2
<1> HIDE DEF u, c, k
<1>3. k \in 0 .. Len(u)
  BY <1>1, <1>2
<1>4. /\ d \in Seq(S) /\ e \in Seq(S) /\ Len(d) = k /\ Len(e) = Len(u) - k
      /\ \A i \in 1 .. k : d[i] = u[i]
      /\ \A i \in 1 .. Len(u) - k : e[i] = u[i + k]
      /\ Held(u) = Held(d) \cup Held(e)
      /\ Sole(u) => Sole(d) /\ Sole(e) /\ Held(d) \cap Held(e) = {}
      /\ \A x : x # None => Places(u, x) = Places(d, x) + Places(e, x)
  <2>1. /\ d \in Seq(S) /\ e \in Seq(S) /\ Len(d) = k /\ Len(e) = Len(u) - k
        /\ \A i \in 1 .. k : d[i] = u[i]
        /\ \A i \in 1 .. Len(u) - k : e[i] = u[i + k]
        /\ Held(u) = Held(d) \cup Held(e)
        /\ Sole(u) => Sole(d) /\ Sole(e) /\ Held(d) \cap Held(e) = {}
    BY <1>2, <1>3, Parted
  <2>2. ASSUME NEW x, x # None PROVE Places(u, x) = Places(d, x) + Places(e, x)
    BY <1>2, <1>3, <2>2, HowOftenInParts
  <2> QED
    BY <2>1, <2>2
<1>5. a \in Seq(S) /\ Len(a) = k /\ \A i \in 1 .. k : a[i] = s[i]
  BY <1>1, Parted
<1> HIDE DEF a, d, e
<1>6. \A i \in 1 .. k : d[i] = s[i]
  BY <1>1, <1>2, <1>4
<1>7. a = d
  BY <1>4, <1>5, <1>6, SeqEqual
<1>8. b \in Seq(S) /\ Len(b) = last - first + 1
      /\ \A i \in 1 .. last - first + 1 : b[i] = s[i + k]
  <2>1. \A i \in first .. last : s[i] \in S
    BY <1>1, ElementOfSeq
  <2>2. first \in Int /\ last \in Int /\ first <= last
    BY <1>1
  <2>3. /\ b \in Seq(S) /\ Len(b) = (IF first <= last THEN last - first + 1 ELSE 0)
        /\ \A i \in 1 .. last - first + 1 : b[i] = s[first + i - 1]
    BY <2>1, <2>2, SubSeqProperties
  <2>4. \A i \in 1 .. last - first + 1 : first + i - 1 = i + k
    BY <1>1
  <2> HIDE DEF b
  <2> QED
    BY <2>2, <2>3, <2>4
<1>9. SubSeq(u, first, last) = e
  <2>1. k + 1 = first /\ Len(u) = last
    BY <1>1, <1>2
  <2> QED
    BY <2>1 DEF e
<1> HIDE DEF b
<1>10. b = e
  <2>1. Len(u) - k = last - first + 1
    BY <1>1, <1>2
  <2>2. \A i \in 1 .. Len(u) - k : i + k \in 1 .. last
    BY <1>1, <1>2
  <2>3. ASSUME NEW i \in 1 .. Len(e) PROVE e[i] = b[i]
    <3>1. i \in 1 .. Len(u) - k /\ i \in 1 .. last - first + 1
      BY <2>1, <1>4
    <3>2. e[i] = u[i + k] /\ u[i + k] = s[i + k] /\ b[i] = s[i + k]
      BY <3>1, <2>2, <1>2, <1>4, <1>8
    <3> QED
      BY <3>2
  <2> QED
    BY <2>1, <2>3, <1>4, <1>8, SeqEqual
<1>11. /\ Held(s) = Held(a) \cup Held(b) \cup Held(c)
       /\ Sole(s) => /\ Sole(a) /\ Sole(b) /\ Sole(c)
                     /\ Held(a) \cap Held(b) = {} /\ Held(a) \cap Held(c) = {}
                     /\ Held(b) \cap Held(c) = {}
  BY <1>2, <1>4, <1>7, <1>10
<1>12. \A x : x # None => Places(s, x) = Places(a, x) + Places(b, x) + Places(c, x)
  BY <1>2, <1>4, <1>7, <1>10
<1> QED
  BY <1>1, <1>2, <1>5, <1>7, <1>8, <1>9, <1>10, <1>11, <1>12 DEF a, b, c, d, e, u, k

LEMMA ColumnsInThree ==
  ASSUME NEW R, NEW s \in Seq(R), NEW first \in 1 .. Len(s), NEW last \in first .. Len(s),
         NEW f, NEW V, Fielded(R, f, V)
  PROVE  /\ Column(SubSeq(s, 1, first - 1), f) = SubSeq(Column(s, f), 1, first - 1)
         /\ Column(SubSeq(s, first, last), f) = SubSeq(Column(s, f), first, last)
         /\ Column(SubSeq(s, last + 1, Len(s)), f) = SubSeq(Column(s, f), last + 1, Len(s))
<1> DEFINE u == SubSeq(s, 1, last)
           c == Column(s, f)
           k == first - 1
<1>1. /\ Len(s) \in Nat /\ last \in 0 .. Len(s) /\ k \in 0 .. Len(s) /\ k \in 0 .. last
      /\ k + 1 = first
  BY LenProperties
<1> HIDE DEF k
<1>2. Column(SubSeq(s, 1, k), f) = SubSeq(c, 1, k)
  BY <1>1, ColumnOfRest
<1>3. /\ Column(u, f) = SubSeq(c, 1, last)
      /\ Column(SubSeq(s, last + 1, Len(s)), f) = SubSeq(c, last + 1, Len(s))
  BY <1>1, ColumnOfRest, SMTT(30)
<1>4. c \in Seq(V) /\ Len(c) = Len(s)
  BY ColumnIs
<1>5. u \in Seq(R) /\ Len(u) = last
  BY <1>1, Parted
<1> HIDE DEF u, c
<1>6. Column(SubSeq(u, k + 1, Len(u)), f) = SubSeq(Column(u, f), k + 1, Len(u))
  <2>1. k \in 0 .. Len(u)
    BY <1>1, <1>5
  <2> QED
    <3>1. u \in Seq(R)
      BY <1>5
    <3> QED
      BY <2>1, <3>1, ColumnOfRest
<1>7. Column(SubSeq(u, first, last), f) = SubSeq(SubSeq(c, 1, last), first, last)
  BY <1>1, <1>3, <1>5, <1>6
<1>8. SubSeq(u, first, last) = SubSeq(s, first, last)
  BY InThree DEF u
<1>9. SubSeq(SubSeq(c, 1, last), first, last) = SubSeq(c, first, last)
  BY <1>4, InThree
<1> QED
  BY <1>2, <1>3, <1>7, <1>8, <1>9 DEF c, k

\* EcPrepareBuffersForNetAdapter and PreAdvancePostDataBuffer take from the pools.
LEMMA FromThePools ==
  ASSUME TypeInv
  PROVE  /\ LET s == Popped(nblPool, SmallerOf(Room(PacketSlots, posted, drained),
                                              Cardinality(nblPool)))
            IN s \in Seq(Nbls) /\ Sole(s) /\ Held(s) \subseteq nblPool /\ ToSet(s) = Held(s)
         /\ LET s == Popped(mdlPool, SmallerOf(Room(FragmentSlots, offered, filled),
                                               Cardinality(mdlPool)))
            IN s \in Seq(Buffers) /\ Sole(s) /\ Held(s) \subseteq mdlPool /\ ToSet(s) = Held(s)
         /\ LET s == Popped(free, SmallerOf(Room(BufferSlots, bufferRing, letGo),
                                            Cardinality(free)))
            IN s \in Seq(Buffers) /\ Sole(s) /\ Held(s) \subseteq free /\ ToSet(s) = Held(s)
         /\ LET s == [i \in 1 .. Room(FragmentSlots, offered, filled) |-> None]
            IN s \in Seq({None}) /\ Sole(s) /\ Held(s) = {} /\ ToSet(s) \subseteq {None}
<1>1. ASSUME NEW A, NEW pool \in SUBSET A, IsFiniteSet(pool), None \notin pool, NEW room \in Int
      PROVE  LET s == Popped(pool, SmallerOf(room, Cardinality(pool)))
             IN s \in Seq(A) /\ Sole(s) /\ Held(s) \subseteq pool /\ ToSet(s) = Held(s)
  <2> DEFINE count == SmallerOf(room, Cardinality(pool))
             s == Popped(pool, count)
  <2>1. Cardinality(pool) \in Nat
    BY <1>1, FS_CardinalityType
  <2>2. count \in Int /\ count <= Cardinality(pool)
    BY <2>1 DEF SmallerOf
  <2> HIDE DEF count
  <2>3. s \in Seq(pool) /\ Sole(s) /\ Held(s) \subseteq pool /\ ToSet(s) = Held(s)
    BY <1>1, <2>2, PoppedFromPool
  <2> HIDE DEF s
  <2>4. s \in [1 .. Len(s) -> A] /\ Len(s) \in Nat
    <3>1. s \in [1 .. Len(s) -> pool] /\ Len(s) \in Nat
      BY <2>3, LenProperties
    <3> QED
      BY <3>1
  <2>5. s \in Seq(A)
    BY <2>4, ElementByElement
  <2> QED
    BY <2>3, <2>5 DEF s, count
<1>2. /\ Room(PacketSlots, posted, drained) \in Int
      /\ Room(FragmentSlots, offered, filled) \in Int
      /\ Room(BufferSlots, bufferRing, letGo) \in Int
  <2>1. /\ Len(posted) \in Nat /\ Len(drained) \in Nat /\ Len(offered) \in Nat
        /\ Len(filled) \in Nat /\ Len(bufferRing) \in Nat /\ Len(letGo) \in Nat
    BY LenProperties DEF TypeInv
  <2> QED
    BY <2>1, SizesAreNumbers DEF Room
<1>3. nblPool \in SUBSET Nbls /\ mdlPool \in SUBSET Buffers /\ free \in SUBSET Buffers
  BY DEF TypeInv
<1>4. LET s == [i \in 1 .. Room(FragmentSlots, offered, filled) |-> None]
      IN s \in Seq({None}) /\ Sole(s) /\ Held(s) = {} /\ ToSet(s) \subseteq {None}
  <2> DEFINE n == Room(FragmentSlots, offered, filled)
             s == [i \in 1 .. n |-> None]
  <2> HIDE DEF n
  <2>1. CASE n >= 0
    <3>1. s \in [1 .. n -> {None}] /\ n \in Nat
      BY <2>1, <1>2 DEF n
    <3>2. s \in Seq({None})
      BY <3>1, ElementByElement
    <3> QED
      BY <3>2, NothingHeld DEF ToSet, n
  <2>2. CASE ~(n >= 0)
    <3>1. 1 .. n = {} /\ 1 .. 0 = {}
      BY <2>2, <1>2 DEF n
    <3>2. s \in [1 .. 0 -> {None}]
      BY <3>1
    <3>3. s \in Seq({None})
      BY <3>2, ElementByElement
    <3> QED
      BY <3>3, NothingHeld DEF ToSet, n
  <2> QED
    BY <2>1, <2>2, <1>2 DEF n
<1>5. LET s == Popped(nblPool, SmallerOf(Room(PacketSlots, posted, drained),
                                         Cardinality(nblPool)))
      IN s \in Seq(Nbls) /\ Sole(s) /\ Held(s) \subseteq nblPool /\ ToSet(s) = Held(s)
  <2> DEFINE room == Room(PacketSlots, posted, drained)
  <2>1. room \in Int
    BY <1>2
  <2> HIDE DEF room
  <2>2. LET s == Popped(nblPool, SmallerOf(room, Cardinality(nblPool)))
        IN s \in Seq(Nbls) /\ Sole(s) /\ Held(s) \subseteq nblPool /\ ToSet(s) = Held(s)
    BY <2>1, <1>1, <1>3, ColumnTypes
  <2> QED
    BY <2>2 DEF room
<1>6. LET s == Popped(mdlPool, SmallerOf(Room(FragmentSlots, offered, filled),
                                         Cardinality(mdlPool)))
      IN s \in Seq(Buffers) /\ Sole(s) /\ Held(s) \subseteq mdlPool /\ ToSet(s) = Held(s)
  <2> DEFINE room == Room(FragmentSlots, offered, filled)
  <2>1. room \in Int
    BY <1>2
  <2> HIDE DEF room
  <2>2. LET s == Popped(mdlPool, SmallerOf(room, Cardinality(mdlPool)))
        IN s \in Seq(Buffers) /\ Sole(s) /\ Held(s) \subseteq mdlPool /\ ToSet(s) = Held(s)
    BY <2>1, <1>1, <1>3, ColumnTypes
  <2> QED
    BY <2>2 DEF room
<1>7. LET s == Popped(free, SmallerOf(Room(BufferSlots, bufferRing, letGo), Cardinality(free)))
      IN s \in Seq(Buffers) /\ Sole(s) /\ Held(s) \subseteq free /\ ToSet(s) = Held(s)
  <2> DEFINE room == Room(BufferSlots, bufferRing, letGo)
  <2>1. room \in Int
    BY <1>2
  <2> HIDE DEF room
  <2>2. LET s == Popped(free, SmallerOf(room, Cardinality(free)))
        IN s \in Seq(Buffers) /\ Sole(s) /\ Held(s) \subseteq free /\ ToSet(s) = Held(s)
    BY <2>1, <1>1, <1>3, ColumnTypes
  <2> QED
    BY <2>2 DEF room
<1> QED
  BY <1>4, <1>5, <1>6, <1>7

\* TransferDataBufferFromNetPacketToNbl: the fragments in front of those of the packet,
\* those of the packet, and the rest.
LEMMA Transferred ==
  ASSUME TypeInv, LayoutInv, drained # <<>>, ~Head(drained).ignore
  PROVE  LET first   == FirstUsed(filled)
             next    == first + Head(drained).count
             skipped == SubSeq(filled, 1, first - 1)
             taken   == SubSeq(filled, first, next - 1)
             rest    == SubSeq(filled, next, Len(filled))
             parts   == {[mdl |-> filled[i].mdl, memory |-> filled[i].memory] :
                           i \in first .. next - 1}
         IN /\ rest \in Seq(Fragments(mode)) /\ Laid(Tail(drained), rest)
            /\ parts \in SUBSET Parts(mode)
            /\ \A f \in {"mdl", "memory"} :
                 /\ {part[f] : part \in parts} = Held(Column(taken, f))
                 /\ Held(Column(filled, f))
                      = Held(Column(skipped, f)) \cup Held(Column(taken, f))
                        \cup Held(Column(rest, f))
                 /\ Sole(Column(filled, f)) =>
                      /\ Sole(Column(rest, f))
                      /\ Held(Column(skipped, f)) \cap Held(Column(taken, f)) = {}
                      /\ Held(Column(skipped, f)) \cap Held(Column(rest, f)) = {}
                      /\ Held(Column(taken, f)) \cap Held(Column(rest, f)) = {}
            /\ Held(Column(skipped, "memory")) = {}
            /\ {skipped[i].mdl : i \in DOMAIN skipped} \subseteq Memory
            /\ mode # "ALLOCATE" =>
                 {skipped[i].mdl : i \in DOMAIN skipped} = Held(Column(skipped, "mdl"))
            /\ \A b \in Buffers :
                 InFragments(filled, b)
                   = (IF b \in Held(Column(taken, "memory")) THEN 1 ELSE 0) + InFragments(rest, b)
<1> DEFINE first   == FirstUsed(filled)
           count   == Head(drained).count
           next    == first + count
           last    == next - 1
           skipped == SubSeq(filled, 1, first - 1)
           taken   == SubSeq(filled, first, last)
           rest    == SubSeq(filled, next, Len(filled))
           F       == Fragments(mode)
           part(i) == [mdl |-> filled[i].mdl, memory |-> filled[i].memory]
           parts   == {part(i) : i \in first .. last}
<1>1. filled \in Seq(FragmentType) /\ drained \in Seq(Packet)
  BY ColumnTypes DEF TypeInv
<1>2. /\ first \in 1 .. Len(filled) /\ last \in first .. Len(filled)
      /\ \A i \in 1 .. first - 1 : filled[i].skipped
      /\ \A i \in first .. last : ~filled[i].skipped
      /\ \A i, j \in first .. last : filled[i].memory = filled[j].memory => i = j
      /\ Laid(Tail(drained), rest)
  <2> HIDE DEF first
  <2> USE DEF first
  <2> QED
    BY <1>1, NextPacket DEF LayoutInv
<1>3. count \in Nat /\ Len(filled) \in Nat /\ last + 1 = next
  <2>1. Head(drained) \in Packet
    BY <1>1, Shortened
  <2>2. count \in Nat /\ Len(filled) \in Nat
    BY <2>1, <1>1, LenProperties DEF Packet
  <2> QED
    BY <2>2, <1>2
<1> HIDE DEF first, count, next
<1>4. filled \in Seq(F) /\ DOMAIN filled = 1 .. Len(filled)
      /\ \A i \in 1 .. Len(filled) : filled[i] \in F
  BY LenProperties, ElementOfSeq DEF TypeInv
<1> DEFINE end == last
<1>5. end \in first .. Len(filled) /\ end + 1 = next /\ end = last
  BY <1>2, <1>3
<1> HIDE DEF last, F
<1>6. /\ skipped \in Seq(F) /\ taken \in Seq(F) /\ rest \in Seq(F)
      /\ Len(skipped) = first - 1 /\ Len(taken) = last - first + 1
      /\ \A i \in 1 .. first - 1 : skipped[i] = filled[i]
      /\ \A i \in 1 .. last - first + 1 : taken[i] = filled[i + (first - 1)]
  <2>1. rest = SubSeq(filled, last + 1, Len(filled))
    BY <1>3
  <2> QED
    BY <1>2, <1>4, <2>1, InThree
<1>7. ASSUME NEW f, NEW V, Fielded(F, f, V)
      PROVE  /\ Column(skipped, f) = SubSeq(Column(filled, f), 1, first - 1)
             /\ Column(taken, f) = SubSeq(Column(filled, f), first, last)
             /\ Column(rest, f) = SubSeq(Column(filled, f), last + 1, Len(Column(filled, f)))
             /\ Column(filled, f) \in Seq(V) /\ Len(Column(filled, f)) = Len(filled)
  <2>1. /\ Column(skipped, f) = SubSeq(Column(filled, f), 1, first - 1)
        /\ Column(taken, f) = SubSeq(Column(filled, f), first, last)
        /\ Column(SubSeq(filled, last + 1, Len(filled)), f)
             = SubSeq(Column(filled, f), last + 1, Len(filled))
    BY <1>2, <1>4, <1>7, ColumnsInThree
  <2>2. Column(filled, f) \in Seq(V) /\ Len(Column(filled, f)) = Len(filled)
    BY <1>4, <1>7, ColumnIs
  <2> QED
    BY <2>1, <2>2, <1>3
<1> HIDE DEF skipped, taken, rest
<1>8. ASSUME NEW f, Fielded(F, f, Memory)
      PROVE  /\ Held(Column(filled, f))
                  = Held(Column(skipped, f)) \cup Held(Column(taken, f)) \cup Held(Column(rest, f))
             /\ Sole(Column(filled, f)) =>
                  /\ Sole(Column(rest, f))
                  /\ Held(Column(skipped, f)) \cap Held(Column(taken, f)) = {}
                  /\ Held(Column(skipped, f)) \cap Held(Column(rest, f)) = {}
                  /\ Held(Column(taken, f)) \cap Held(Column(rest, f)) = {}
             /\ \A x : x # None =>
                  Places(Column(filled, f), x) = Places(Column(skipped, f), x)
                    + Places(Column(taken, f), x) + Places(Column(rest, f), x)
  <2> DEFINE c == Column(filled, f)
  <2>1. /\ Column(skipped, f) = SubSeq(c, 1, first - 1) /\ Column(taken, f) = SubSeq(c, first, last)
        /\ Column(rest, f) = SubSeq(c, last + 1, Len(c))
        /\ c \in Seq(Memory) /\ Len(c) = Len(filled)
    BY <1>7, <1>8
  <2> HIDE DEF c
  <2>2. first \in 1 .. Len(c) /\ last \in first .. Len(c)
    BY <2>1, <1>2
  <2>3. LET a == SubSeq(c, 1, first - 1)
            b == SubSeq(c, first, last)
            e == SubSeq(c, last + 1, Len(c))
        IN /\ Held(c) = Held(a) \cup Held(b) \cup Held(e)
           /\ Sole(c) => /\ Sole(a) /\ Sole(b) /\ Sole(e)
                         /\ Held(a) \cap Held(b) = {} /\ Held(a) \cap Held(e) = {}
                         /\ Held(b) \cap Held(e) = {}
           /\ \A x : x # None => Places(c, x) = Places(a, x) + Places(b, x) + Places(e, x)
    <3>1. c \in Seq(Memory)
      BY <2>1
    <3> QED
      BY <3>1, <2>2, InThree
  <2> QED
    BY <2>1, <2>3 DEF c
<1>9. Fielded(F, "mdl", Memory) /\ Fielded(F, "memory", Memory)
  BY SubTypes DEF F
<1>10. ASSUME NEW i \in first .. last
       PROVE  part(i) \in Parts(mode) /\ filled[i].mdl \in Buffers /\ filled[i].memory \in Buffers
  <2>1. filled[i] \in F /\ ~filled[i].skipped
    BY <1>2, <1>3, <1>4
  <2>2. filled[i].mdl \in Memory /\ filled[i].memory \in Memory /\ filled[i].memory # None
        /\ (mode = "ALLOCATE" => filled[i].mdl = filled[i].memory)
        /\ (mode # "ALLOCATE" => filled[i].mdl # None)
    BY <2>1 DEF F, Fragments, FragmentType
  <2> QED
    BY <2>2 DEF Parts, Memory
<1>11. parts \in SUBSET Parts(mode)
  BY <1>10
<1>12. ASSUME NEW f \in {"mdl", "memory"}
       PROVE  {p[f] : p \in parts} = Held(Column(taken, f))
  <2>1. DOMAIN taken = 1 .. last - first + 1
    BY <1>6, LenProperties
  <2>2. ASSUME NEW x PROVE x \in {p[f] : p \in parts} <=> x \in Held(Column(taken, f))
    <3>1. ASSUME NEW i \in first .. last PROVE part(i)[f] = filled[i][f] /\ filled[i][f] # None
      BY <1>10, NullIsNobody
    <3>2. x \in {p[f] : p \in parts} <=> \E i \in first .. last : x = filled[i][f]
      BY <3>1
    <3>3. x \in Held(Column(taken, f))
            <=> x # None /\ \E i \in 1 .. last - first + 1 : taken[i][f] = x
      BY <2>1 DEF Held, ToSet, Column
    <3>4. ASSUME NEW i \in first .. last
          PROVE  /\ i - (first - 1) \in 1 .. last - first + 1
                 /\ taken[i - (first - 1)] = filled[i]
      <4>1. i - (first - 1) \in 1 .. last - first + 1 /\ (i - (first - 1)) + (first - 1) = i
        BY <1>2, <1>3
      <4> QED
        BY <4>1, <1>6
    <3>5. ASSUME NEW i \in 1 .. last - first + 1
          PROVE  i + (first - 1) \in first .. last /\ taken[i] = filled[i + (first - 1)]
      BY <1>2, <1>3, <1>6
    <3> QED
      BY <3>1, <3>2, <3>3, <3>4, <3>5
  <2> HIDE DEF parts
  <2> QED
    BY <2>2
<1>13. DOMAIN skipped = 1 .. first - 1 /\ \A i \in 1 .. first - 1 : skipped[i] \in F
  BY <1>6, LenProperties, ElementOfSeq
<1>14. Held(Column(skipped, "memory")) = {}
  <2>1. ASSUME NEW i \in 1 .. first - 1 PROVE skipped[i].memory = None
    <3>1. skipped[i].skipped /\ skipped[i] \in F
      BY <1>2, <1>6, <1>13
    <3> QED
      BY <3>1 DEF F, Fragments
  <2>2. \A i \in DOMAIN Column(skipped, "memory") : Column(skipped, "memory")[i] = None
    BY <2>1, <1>13 DEF Column
  <2> QED
    BY <2>2, NothingHeld
<1>15. /\ {skipped[i].mdl : i \in DOMAIN skipped} \subseteq Memory
       /\ mode # "ALLOCATE" =>
            {skipped[i].mdl : i \in DOMAIN skipped} = Held(Column(skipped, "mdl"))
  <2>1. ASSUME NEW i \in DOMAIN skipped
        PROVE  skipped[i].mdl \in Memory /\ (mode # "ALLOCATE" => skipped[i].mdl # None)
    BY <1>13 DEF F, Fragments, FragmentType
  <2>2. {skipped[i].mdl : i \in DOMAIN skipped} = ToSet(Column(skipped, "mdl"))
    BY DEF ToSet, Column
  <2> QED
    BY <2>1, <2>2 DEF Held
<1>16. ASSUME NEW b \in Buffers
       PROVE  InFragments(filled, b)
                = (IF b \in Held(Column(taken, "memory")) THEN 1 ELSE 0) + InFragments(rest, b)
  <2> DEFINE t == Column(taken, "memory")
             s == Column(skipped, "memory")
             r == Column(rest, "memory")
             c == Column(filled, "memory")
  <2>1. b # None
    BY NullIsNobody
  <2>2. Places(c, b) = Places(s, b) + Places(t, b) + Places(r, b)
    BY <2>1, <1>8, <1>9
  <2>3. t \in Seq(Memory) /\ s \in Seq(Memory) /\ r \in Seq(Memory)
    BY <1>6, <1>9, ColumnIs
  <2>4. Sole(t)
    <3>1. DOMAIN t = 1 .. last - first + 1 /\ \A i \in DOMAIN t : t[i] = filled[i + (first - 1)].memory
      BY <1>6, LenProperties DEF Column
    <3>2. ASSUME NEW i \in DOMAIN t, NEW j \in DOMAIN t, t[i] = t[j] PROVE i = j
      <4>1. i + (first - 1) \in first .. last /\ j + (first - 1) \in first .. last
        BY <3>1, <1>2, <1>3
      <4>2. i + (first - 1) = j + (first - 1)
        BY <3>1, <3>2, <4>1, <1>2
      <4> QED
        BY <3>1, <4>2, <1>2, <1>3
    <3> QED
      BY <3>2 DEF Sole
  <2>5. Held(s) = {}
    BY <1>14
  <2> HIDE DEF t, s, r, c
  <2>6. /\ Places(s, b) = 0 /\ Places(r, b) \in Nat
        /\ Places(t, b) = IF b \in Held(t) THEN 1 ELSE 0
    BY <2>1, <2>3, <2>4, <2>5, HowOften
  <2>7. Places(c, b) = (IF b \in Held(t) THEN 1 ELSE 0) + Places(r, b)
    BY <2>2, <2>6
  <2> QED
    BY <2>7 DEF InFragments, t, r, c
<1>17. rest \in Seq(F) /\ Laid(Tail(drained), rest)
  BY <1>2, <1>6 DEF rest
<1> HIDE DEF parts
<1>18. \A f \in {"mdl", "memory"} :
         /\ {p[f] : p \in parts} = Held(Column(taken, f))
         /\ Held(Column(filled, f))
              = Held(Column(skipped, f)) \cup Held(Column(taken, f)) \cup Held(Column(rest, f))
         /\ Sole(Column(filled, f)) =>
              /\ Sole(Column(rest, f))
              /\ Held(Column(skipped, f)) \cap Held(Column(taken, f)) = {}
              /\ Held(Column(skipped, f)) \cap Held(Column(rest, f)) = {}
              /\ Held(Column(taken, f)) \cap Held(Column(rest, f)) = {}
  BY <1>8, <1>9, <1>12
<1> QED
  BY <1>11, <1>14, <1>15, <1>16, <1>17, <1>18
  DEF first, count, next, last, skipped, taken, rest, F, parts

-----------------------------------------------------------------------------
(* Every variable keeps its type.                                           *)
LEMMA TypeInit == ASSUME Init PROVE TypeInv
<1>1. mode \in Modes /\ mode \in {"DRIVER", "ATTACH", "ALLOCATE"}
  BY SizeAssumption DEF Init
<1>2. chain \in [Nbls -> SUBSET Parts(mode)] /\ refs \in [Buffers -> Int]
  BY DEF Init
<1>3. /\ posted \in Seq(Nbls) /\ drained \in Seq(Packet) /\ batch \in Seq(Nbls)
      /\ offered \in Seq(Offers(mode)) /\ filled \in Seq(Fragments(mode))
      /\ bufferRing \in Seq(Buffers) /\ letGo \in Seq(Buffers)
  BY EmptySeq DEF Init
<1> QED
  BY <1>1, <1>2, <1>3 DEF Init, TypeInv

LEMMA CancelTypes ==
  ASSUME TypeInv, EvtCancel, mode' = mode
  PROVE  /\ posted' \in Seq(Nbls) /\ drained' \in Seq(Packet)
         /\ offered' \in Seq(Offers(mode)) /\ filled' \in Seq(Fragments(mode))
<1> DEFINE p == [i \in DOMAIN posted |-> Ignored(posted[i])]
           t == [i \in DOMAIN offered |-> SkippedFragment(offered[i])]
<1>1. p \in Seq(Packet) /\ t \in Seq(Fragments(mode))
  BY GivenBack
<1>2. \/ /\ drained' = drained \o p /\ filled' = filled \o t
         /\ posted' = <<>> /\ offered' = <<>>
      \/ UNCHANGED <<posted, drained, offered, filled>>
  BY DEF EvtCancel, packetRing, fragmentRing
<1> HIDE DEF p, t
<1>3. drained \o p \in Seq(Packet) /\ filled \o t \in Seq(Fragments(mode))
  BY <1>1, ConcatProperties DEF TypeInv
<1> QED
  BY <1>2, <1>3, EmptySeq DEF TypeInv

LEMMA ReceiveTypes ==
  ASSUME TypeInv, DriverReceives
  PROVE  TypeInv'
<1>1. PICK count \in 1 .. SmallerOf(MaxFragments, Len(offered)), valid \in BOOLEAN :
        /\ TakesMemory(count)
        /\ filled' = filled \o Attached(count)
        /\ offered' = SubSeq(offered, count + 1, Len(offered))
        /\ drained' = Append(drained, [nbl |-> Head(posted), count |-> count,
                                       ignore |-> FALSE, valid |-> valid])
        /\ posted' = Tail(posted)
  BY DEF DriverReceives
<1> DEFINE t == Attached(count)
           p == [nbl |-> Head(posted), count |-> count, ignore |-> FALSE, valid |-> valid]
<1>2. posted # <<>>
  BY DEF DriverReceives
<1>3. Head(posted) \in Nbls /\ Tail(posted) \in Seq(Nbls)
  BY <1>2, Shortened DEF TypeInv
<1>4. count \in 1 .. Len(offered) /\ t \in Seq(Fragments(mode))
  BY <1>1, WithMemory DEF TakesMemory
<1>5. p \in Packet
  BY <1>3 DEF Packet
<1> HIDE DEF t, p
<1>6. drained' \in Seq(Packet) /\ filled' \in Seq(Fragments(mode)) /\ posted' \in Seq(Nbls)
  <2>1. Append(drained, p) \in Seq(Packet)
    BY <1>5, AppendProperties DEF TypeInv
  <2>2. filled \o t \in Seq(Fragments(mode))
    BY <1>4, ConcatProperties DEF TypeInv
  <2> QED
    BY <2>1, <2>2, <1>1, <1>3 DEF t, p
<1>7. offered' \in Seq(Offers(mode))
  <2>1. count \in 0 .. Len(offered)
    BY <1>4
  <2> QED
    BY <1>1, <2>1, Parted DEF TypeInv
<1>8. bufferRing' \in Seq(Buffers) /\ letGo' \in Seq(Buffers) /\ sharing' \in BOOLEAN
      /\ driverMemory' \in SUBSET Buffers
  <2> DEFINE k == count
             first == SubSeq(bufferRing, 1, k)
             rest == SubSeq(bufferRing, k + 1, Len(bufferRing))
  <2>1. \/ letGo' = letGo \o first /\ bufferRing' = rest /\ k \in 0 .. Len(bufferRing)
        \/ UNCHANGED dataRing
    <3>1. k \in Nat /\ Len(bufferRing) \in Nat
      BY <1>4, LenProperties DEF TypeInv
    <3> QED
      BY <1>1, <3>1 DEF TakesMemory
  <2>2. sharing' \in BOOLEAN
    BY <1>1 DEF TakesMemory, driver, TypeInv
  <2>3. driverMemory' \in SUBSET Buffers
    BY <1>1 DEF TakesMemory, driver, TypeInv
  <2>4. bufferRing \in Seq(Buffers) /\ letGo \in Seq(Buffers)
    BY DEF TypeInv
  <2> HIDE DEF k
  <2>5. CASE letGo' = letGo \o first /\ bufferRing' = rest /\ k \in 0 .. Len(bufferRing)
    <3>1. first \in Seq(Buffers) /\ rest \in Seq(Buffers)
      BY <2>4, <2>5, Parted
    <3> HIDE DEF first, rest
    <3>2. letGo \o first \in Seq(Buffers)
      BY <2>4, <3>1, ConcatProperties
    <3> QED
      BY <2>2, <2>3, <2>5, <3>1, <3>2
  <2>6. CASE UNCHANGED dataRing
    BY <2>2, <2>3, <2>4, <2>6 DEF dataRing
  <2> QED
    BY <2>1, <2>5, <2>6
<1>9. /\ UNCHANGED <<mode, life, readyToStop, pc, awake, nblPool, mdlPool, chain, batch, counts,
                     indicated, returned, discarded, gate>>
  BY DEF DriverReceives
<1> QED
  BY <1>6, <1>7, <1>8, <1>9 DEF TypeInv, counts, gate

LEMMA TransferTypes ==
  ASSUME TypeInv, LayoutInv, TransferDataBuffer
  PROVE  TypeInv'
<1> DEFINE packet  == Head(drained)
           first   == FirstUsed(filled)
           next    == first + packet.count
           skipped == SubSeq(filled, 1, first - 1)
           rest    == SubSeq(filled, next, Len(filled))
           parts   == {[mdl |-> filled[i].mdl, memory |-> filled[i].memory] :
                         i \in first .. next - 1}
<1>1. /\ drained # <<>> /\ awake' = TRUE /\ drained' = Tail(drained)
      /\ packet.ignore => UNCHANGED <<filled, mdlPool, chain>>
      /\ ~packet.ignore =>
           /\ filled' = rest
           /\ mdlPool' = mdlPool \cup ReclaimSkippedFragments(skipped)
           /\ chain' = [chain EXCEPT ![packet.nbl] = parts]
      /\ \/ batch' = Append(batch, packet.nbl) /\ UNCHANGED discarded
         \/ discarded' = discarded \cup {packet.nbl} /\ UNCHANGED batch
      /\ UNCHANGED <<mode, life, readyToStop, pc, posted, offered, dataRing, driver, nblPool,
                     counts, indicated, returned, gate>>
  BY Zenon DEF TransferDataBuffer, FirstUsed
<1>2. packet \in Packet /\ Tail(drained) \in Seq(Packet) /\ packet.nbl \in Nbls
  <2>1. packet \in Packet /\ Tail(drained) \in Seq(Packet)
    BY <1>1, Shortened DEF TypeInv
  <2> QED
    BY <2>1 DEF Packet
<1>3. ~packet.ignore => /\ rest \in Seq(Fragments(mode)) /\ parts \in SUBSET Parts(mode)
                        /\ ReclaimSkippedFragments(skipped) \subseteq Buffers
  <2> SUFFICES ASSUME ~packet.ignore
               PROVE  /\ rest \in Seq(Fragments(mode)) /\ parts \in SUBSET Parts(mode)
                      /\ ReclaimSkippedFragments(skipped) \subseteq Buffers
    OBVIOUS
  <2>1. /\ rest \in Seq(Fragments(mode)) /\ parts \in SUBSET Parts(mode)
        /\ {skipped[i].mdl : i \in DOMAIN skipped} \subseteq Memory
        /\ mode # "ALLOCATE" =>
             {skipped[i].mdl : i \in DOMAIN skipped} = Held(Column(skipped, "mdl"))
    BY <1>1, Transferred
  <2> HIDE DEF skipped, rest, parts
  <2>2. ReclaimSkippedFragments(skipped) \subseteq Memory \ {None}
    BY <2>1 DEF ReclaimSkippedFragments, Held
  <2> QED
    BY <2>1, <2>2 DEF Memory
<1> HIDE DEF packet, first, next, skipped, rest, parts
<1>4. /\ filled' \in Seq(Fragments(mode)) /\ mdlPool' \in SUBSET Buffers
      /\ chain' \in [Nbls -> SUBSET Parts(mode)]
  BY <1>1, <1>2, <1>3 DEF TypeInv
<1>5. batch' \in Seq(Nbls) /\ discarded' \in SUBSET Nbls
  <2>1. Append(batch, packet.nbl) \in Seq(Nbls)
    BY <1>2, AppendProperties DEF TypeInv
  <2> QED
    BY <1>1, <1>2, <2>1 DEF TypeInv
<1> QED
  BY <1>1, <1>2, <1>4, <1>5 DEF TypeInv, dataRing, driver, counts, gate

\* What NDIS gets is the batch, in disjoint units.
LEMMA Units ==
  ASSUME NEW s \in Seq(Nbls), NEW units \in Coalesced(s)
  PROVE  /\ UNION units = ToSet(s) /\ {} \notin units
         /\ units \in SUBSET SUBSET Nbls /\ (Sole(s) => Disjoint(units))
         /\ s = <<>> => units = {}
<1> DEFINE near(i, cuts) == {x \in DOMAIN s : \A c \in cuts : (x <= c) <=> (i <= c)}
           together(i, cuts) == {s[j] : j \in near(i, cuts)}
<1>1. PICK cuts \in SUBSET DOMAIN s : units = {together(i, cuts) : i \in DOMAIN s}
  BY DEF Coalesced
<1>2. DOMAIN s = 1 .. Len(s) /\ \A i \in DOMAIN s : s[i] \in Nbls
  BY LenProperties, ElementOfSeq
<1>3. \A i \in DOMAIN s : i \in near(i, cuts) /\ near(i, cuts) \subseteq DOMAIN s
  OBVIOUS
<1>4. ASSUME NEW i \in DOMAIN s PROVE s[i] \in together(i, cuts) /\ together(i, cuts) \subseteq ToSet(s)
  BY <1>3 DEF ToSet
<1>5. UNION units = ToSet(s)
  <2> HIDE DEF together
  <2>1. ToSet(s) \subseteq UNION units
    <3>1. \A i \in DOMAIN s : together(i, cuts) \in units
      BY <1>1
    <3> QED
      BY <3>1, <1>4 DEF ToSet
  <2> QED
    BY <2>1, <1>1, <1>4
<1>6. {} \notin units
  BY <1>1, <1>4
<1>7. ToSet(s) \subseteq Nbls
  BY <1>2 DEF ToSet
<1>8. ASSUME Sole(s), NEW i \in DOMAIN s, NEW j \in DOMAIN s,
             together(i, cuts) \cap together(j, cuts) # {}
      PROVE  together(i, cuts) = together(j, cuts)
  <2>1. PICK x \in near(i, cuts), y \in near(j, cuts) : s[x] = s[y]
    BY <1>8
  <2>2. x = y
    BY <2>1, <1>2, <1>3, <1>8, NullIsNobody DEF Sole
  <2>3. near(i, cuts) = near(j, cuts)
    BY <2>2
  <2> HIDE DEF near
  <2> QED
    BY <2>3
<1>9. ASSUME Sole(s) PROVE Disjoint(units)
  <2> HIDE DEF together
  <2> SUFFICES ASSUME NEW u \in units, NEW v \in units, u \cap v # {} PROVE u = v
    BY DEF Disjoint
  <2>1. PICK i \in DOMAIN s, j \in DOMAIN s : u = together(i, cuts) /\ v = together(j, cuts)
    BY <1>1
  <2> QED
    BY <2>1, <1>8, <1>9
<1>10. s = <<>> => units = {}
  BY <1>1
<1> QED
  BY <1>5, <1>6, <1>7, <1>9, <1>10

LEMMA ReturnTypes ==
  ASSUME TypeInv, EcReturnBuffers
  PROVE  TypeInv'
<1> DEFINE back == returned \cup discarded
           parts == UNION {chain[n] : n \in back}
           times(b) == Cardinality({n \in back : \E part \in chain[n] : part.mdl = b})
           freed == {b \in Buffers : times(b) > 0 /\ refs[b] = times(b) /\ b \in osOwned}
<1>1. back \in SUBSET Nbls /\ IsFiniteSet(back)
  BY FinitelyMany, FS_Subset DEF TypeInv
<1>2. ASSUME NEW b \in Buffers PROVE times(b) \in Nat
  <2>1. IsFiniteSet({n \in back : \E part \in chain[n] : part.mdl = b})
    BY <1>1, FS_Subset
  <2> QED
    BY <2>1, FS_CardinalityType
<1>3. parts \in SUBSET Parts(mode)
  BY <1>1 DEF TypeInv
<1>4. {part.mdl : part \in parts} \subseteq Buffers /\ {part.memory : part \in parts} \subseteq Buffers
  BY <1>3 DEF Parts
<1> HIDE DEF times, parts
<1>5. freed \subseteq Buffers
  OBVIOUS
<1> HIDE DEF freed, back
<1>6. /\ awake' \in BOOLEAN
      /\ pc' \in {"prepare", "recover", "post"}
      /\ returned' = {} /\ discarded' = {} /\ nblPool' = nblPool \cup back
      /\ chain' = [n \in Nbls |-> IF n \in back THEN {} ELSE chain[n]]
      /\ \/ /\ refs' = [b \in Buffers |-> refs[b] - times(b)]
            /\ free' = free \cup freed /\ osOwned' = osOwned \ freed
            /\ UNCHANGED <<mdlPool, driverMemory, leftOver>>
         \/ /\ mdlPool' = mdlPool \cup {part.mdl : part \in parts}
            /\ \/ driverMemory' = driverMemory \cup {part.memory : part \in parts}
               \/ driverMemory' = driverMemory
            /\ UNCHANGED counts
      /\ UNCHANGED <<mode, life, readyToStop, packetRing, fragmentRing, dataRing, sharing, batch,
                     indicated, gate>>
  BY Zenon DEF EcReturnBuffers, FreeReceivedDataBuffer, back, parts, times, freed
<1>7. chain' \in [Nbls -> SUBSET Parts(mode)]
  BY <1>6 DEF TypeInv
<1>8. refs' \in [Buffers -> Int]
  <2>1. \A b \in Buffers : refs[b] - times(b) \in Int
    BY <1>2 DEF TypeInv
  <2> QED
    BY <1>6, <2>1 DEF TypeInv, counts
<1> QED
  BY <1>1, <1>4, <1>5, <1>6, <1>7, <1>8 DEF TypeInv, packetRing, fragmentRing, dataRing, gate, counts

LEMMA PrepareTypes ==
  ASSUME TypeInv, EcPrepareBuffers
  PROVE  TypeInv'
<1> DEFINE nbls == Popped(nblPool, SmallerOf(Room(PacketSlots, posted, drained),
                                             Cardinality(nblPool)))
           room == Room(FragmentSlots, offered, filled)
           mdls == IF mode = "ALLOCATE" THEN [i \in 1 .. room |-> None]
                   ELSE Popped(mdlPool, SmallerOf(room, Cardinality(mdlPool)))
<1>1. nbls \in Seq(Nbls) /\ mdls \in Seq(Offers(mode))
  <2>1. /\ nbls \in Seq(Nbls)
        /\ Popped(mdlPool, SmallerOf(room, Cardinality(mdlPool))) \in Seq(Buffers)
        /\ [i \in 1 .. room |-> None] \in Seq({None})
    BY FromThePools
  <2> QED
    BY <2>1 DEF Offers
<1>2. /\ pc' = "post" /\ posted' = posted \o nbls /\ nblPool' = nblPool \ ToSet(nbls)
      /\ offered' = offered \o mdls /\ mdlPool' = mdlPool \ ToSet(mdls)
      /\ UNCHANGED <<mode, life, readyToStop, awake, drained, filled, dataRing, driver, chain,
                     batch, counts, indicated, returned, discarded, gate>>
  BY Zenon DEF EcPrepareBuffers
<1> HIDE DEF nbls, mdls
<1>3. posted \o nbls \in Seq(Nbls) /\ offered \o mdls \in Seq(Offers(mode))
  BY <1>1, ConcatProperties DEF TypeInv
<1> QED
  BY <1>2, <1>3 DEF TypeInv, dataRing, driver, counts, gate

LEMMA PostTypes ==
  ASSUME TypeInv, PreAdvancePostDataBuffer
  PROVE  TypeInv'
<1> DEFINE buffers == Popped(free, SmallerOf(Room(BufferSlots, bufferRing, letGo),
                                             Cardinality(free)))
<1>1. buffers \in Seq(Buffers)
  BY FromThePools
<1>2. /\ pc' = "advance" /\ bufferRing' = bufferRing \o buffers /\ free' = free \ ToSet(buffers)
      /\ UNCHANGED <<mode, life, readyToStop, awake, packetRing, fragmentRing, letGo, driver,
                     nblPool, mdlPool, chain, batch, refs, osOwned, leftOver, indicated, returned,
                     discarded, gate>>
  BY Zenon DEF PreAdvancePostDataBuffer
<1> HIDE DEF buffers
<1>3. bufferRing \o buffers \in Seq(Buffers)
  BY <1>1, ConcatProperties DEF TypeInv
<1> QED
  BY <1>2, <1>3 DEF TypeInv, packetRing, fragmentRing, driver, gate

LEMMA AdvanceTypes ==
  ASSUME TypeInv, PostAdvanceRefCounting
  PROVE  TypeInv'
<1> DEFINE times(b) == Cardinality({i \in DOMAIN filled : filled[i].memory = b})
<1>1. ASSUME NEW b \in Buffers PROVE times(b) \in Nat
  <2>1. DOMAIN filled = 1 .. Len(filled) /\ Len(filled) \in Nat
    BY LenProperties DEF TypeInv
  <2>2. IsFiniteSet({i \in DOMAIN filled : filled[i].memory = b})
    <3>1. IsFiniteSet(DOMAIN filled)
      BY <2>1, FS_Interval
    <3> QED
      BY <3>1, FS_Subset
  <2> QED
    BY <2>2, FS_CardinalityType
<1> HIDE DEF times
<1>2. /\ pc' = "indicate"
      /\ \/ /\ refs' = [b \in Buffers |-> refs[b] + times(b)]
            /\ osOwned' = osOwned \cup ToSet(letGo) /\ letGo' = <<>>
         \/ UNCHANGED <<refs, osOwned, letGo>>
      /\ UNCHANGED <<mode, life, readyToStop, awake, packetRing, fragmentRing, bufferRing, driver,
                     nblPool, mdlPool, chain, batch, free, leftOver, indicated, returned,
                     discarded, gate>>
  BY Zenon DEF PostAdvanceRefCounting, times
<1>3. refs' \in [Buffers -> Int]
  <2>1. \A b \in Buffers : refs[b] + times(b) \in Int
    BY <1>1 DEF TypeInv
  <2> QED
    BY <1>2, <2>1 DEF TypeInv
<1>4. ToSet(letGo) \subseteq Buffers
  BY NobodyIsNone DEF TypeInv
<1>5. letGo' \in Seq(Buffers)
  BY <1>2, EmptySeq, ZenonT(40) DEF TypeInv
<1> QED
  BY <1>2, <1>3, <1>4, <1>5 DEF TypeInv, packetRing, fragmentRing, driver, gate

LEMMA IndicateTypes ==
  ASSUME TypeInv, IndicateReceiveNetBufferLists
  PROVE  TypeInv'
<1>1. /\ pc' = "idle" /\ batch' = <<>>
      /\ \/ mdlPool' = mdlPool \cup ReclaimSkippedFragments(filled) /\ filled' = <<>>
         \/ UNCHANGED <<mdlPool, filled>>
      /\ \/ /\ \E units \in Coalesced(batch) : indicated' = indicated \cup units
            /\ UNCHANGED discarded
         \/ discarded' = discarded \cup ToSet(batch) /\ UNCHANGED indicated
      /\ UNCHANGED <<mode, life, readyToStop, awake, packetRing, offered, dataRing, driver,
                     nblPool, chain, free, refs, osOwned, returned, gateOpen>>
      /\ leftOver' \subseteq leftOver \cup ({filled[i].memory : i \in DOMAIN filled} \ {None})
  BY DEF IndicateReceiveNetBufferLists
<1>2. ReclaimSkippedFragments(filled) \subseteq Buffers
  <2>1. ASSUME mode # "ALLOCATE", NEW i \in DOMAIN filled PROVE filled[i].mdl \in Buffers
    <3>1. filled[i] \in Fragments(mode)
      BY LenProperties, ElementOfSeq DEF TypeInv
    <3> QED
      BY <2>1, <3>1 DEF Fragments, FragmentType, Memory
  <2> QED
    BY <2>1 DEF ReclaimSkippedFragments
<1>3. ASSUME NEW units \in Coalesced(batch)
      PROVE  {} \notin units /\ units \in SUBSET SUBSET Nbls
  BY Units DEF TypeInv
<1>4. indicated' \in SUBSET SUBSET Nbls /\ {} \notin indicated'
  BY <1>1, <1>3 DEF TypeInv
<1>5. ToSet(batch) \subseteq Nbls
  BY NobodyIsNone DEF TypeInv
<1>6. batch' \in Seq(Nbls) /\ filled' \in Seq(Fragments(mode))
  BY <1>1, EmptySeq DEF TypeInv
<1>7. leftOver' \subseteq Buffers
  <2>1. ASSUME NEW i \in DOMAIN filled PROVE filled[i].memory \in Buffers \cup {None}
    <3>1. filled[i] \in Fragments(mode)
      BY LenProperties, ElementOfSeq DEF TypeInv
    <3> QED
      BY <3>1 DEF Fragments, FragmentType, Memory
  <2>2. {filled[i].memory : i \in DOMAIN filled} \subseteq Buffers \cup {None}
    BY <2>1
  <2>3. leftOver \subseteq Buffers
    BY DEF TypeInv
  <2> QED
    BY <1>1, <2>2, <2>3
<1> QED
  BY <1>1, <1>2, <1>4, <1>5, <1>6, <1>7 DEF TypeInv, packetRing, dataRing, driver

LEMMA RecoverTypes ==
  ASSUME TypeInv, EcRecoverBuffers
  PROVE  TypeInv'
<1> DEFINE used == {i \in DOMAIN filled : ~filled[i].skipped}
<1>1. /\ pc' = "idle" /\ readyToStop' = TRUE
      /\ nblPool' = nblPool \cup {drained[i].nbl : i \in DOMAIN drained}
      /\ \/ driverMemory' = driverMemory \cup {filled[i].memory : i \in used}
         \/ driverMemory' = driverMemory
      /\ mdlPool' = mdlPool \cup ReclaimSkippedFragments(filled)
      /\ drained' = <<>> /\ filled' = <<>>
      /\ UNCHANGED <<mode, life, awake, posted, offered, dataRing, sharing, chain, batch, counts,
                     indicated, returned, discarded, gate>>
  BY DEF EcRecoverBuffers
<1>2. ASSUME NEW i \in DOMAIN filled
      PROVE  /\ mode # "ALLOCATE" => filled[i].mdl \in Buffers
             /\ ~filled[i].skipped => filled[i].memory \in Buffers
  <2>1. filled[i] \in Fragments(mode)
    BY LenProperties, ElementOfSeq DEF TypeInv
  <2> QED
    BY <2>1 DEF Fragments, FragmentType, Memory
<1>3. ReclaimSkippedFragments(filled) \subseteq Buffers
  BY <1>2 DEF ReclaimSkippedFragments
<1>4. {drained[i].nbl : i \in DOMAIN drained} \subseteq Nbls
  <2>1. \A i \in DOMAIN drained : drained[i] \in Packet
    BY LenProperties, ElementOfSeq DEF TypeInv
  <2> QED
    BY <2>1 DEF Packet
<1>5. drained' \in Seq(Packet) /\ filled' \in Seq(Fragments(mode))
  BY <1>1, EmptySeq
<1> QED
  BY <1>1, <1>2, <1>3, <1>4, <1>5 DEF TypeInv, dataRing, counts, gate

LEMMA TypeStep ==
  ASSUME TypeInv, LayoutInv, [Next]_vars
  PROVE  TypeInv'
<1>1. CASE OpenGate \/ CloseGate \/ DeviceNotifies
  BY <1>1, ZenonT(40) DEF TypeInv, OpenGate, CloseGate, DeviceNotifies, packetRing, fragmentRing, dataRing,
              driver, counts, gate
<1>2. CASE Start
  BY <1>2, EmptySeq DEF TypeInv, Start, driver, counts, gate
<1>3. CASE Cancel
  <2>1. EvtCancel /\ mode' = mode
    BY <1>3 DEF Cancel
  <2> QED
    BY <1>3, <2>1, CancelTypes DEF TypeInv, Cancel, dataRing, driver, counts, gate
<1>4. CASE Stop
  <2>1. ToSet(bufferRing) \subseteq Buffers
    BY NobodyIsNone DEF TypeInv
  <2> QED
    BY <1>4, <2>1, EmptySeq DEF TypeInv, Stop, packetRing, fragmentRing, gate
<1>5. ASSUME NEW unit \in indicated, ReturnNetBufferLists(unit) PROVE TypeInv'
  BY <1>5 DEF TypeInv, ReturnNetBufferLists, packetRing, fragmentRing, dataRing, driver, counts
<1>6. CASE DriverIgnores
  <2>1. posted # <<>>
    BY <1>6 DEF DriverIgnores
  <2>2. Head(posted) \in Nbls /\ Tail(posted) \in Seq(Nbls)
    BY <2>1, Shortened DEF TypeInv
  <2>3. Ignored(Head(posted)) \in Packet
    BY <2>2 DEF Ignored, Packet
  <2>4. Append(drained, Ignored(Head(posted))) \in Seq(Packet)
    BY <2>3, AppendProperties DEF TypeInv
  <2> QED
    BY <1>6, <2>2, <2>4 DEF TypeInv, DriverIgnores, fragmentRing, dataRing, driver, counts, gate
<1>7. CASE DriverSkips
  <2>1. offered # <<>> /\ mode # "ALLOCATE"
    BY <1>7 DEF DriverSkips
  <2>2. Head(offered) \in Offers(mode) /\ Tail(offered) \in Seq(Offers(mode))
    BY <2>1, Shortened DEF TypeInv
  <2>3. SkippedFragment(Head(offered)) \in Fragments(mode)
    BY <2>1, <2>2, NullIsNobody DEF SkippedFragment, Fragments, FragmentType, Memory, Offers
  <2>4. Append(filled, SkippedFragment(Head(offered))) \in Seq(Fragments(mode))
    BY <2>3, AppendProperties DEF TypeInv
  <2> QED
    BY <1>7, <2>2, <2>4 DEF TypeInv, DriverSkips, packetRing, dataRing, driver, counts, gate
<1>8. CASE UNCHANGED vars
  BY <1>8 DEF TypeInv, vars, packetRing, fragmentRing, dataRing, driver, counts, gate
<1> QED
  BY <1>1, <1>2, <1>3, <1>4, <1>5, <1>6, <1>7, <1>8, ReceiveTypes, TransferTypes, ReturnTypes,
     PrepareTypes, PostTypes, AdvanceTypes, IndicateTypes, RecoverTypes
  DEF Next, DriverAdvances, Poll

-----------------------------------------------------------------------------
(* Each NBL stays in one place.                                             *)

\* All that is in some places moves to another.
LEMMA Gathers ==
  ASSUME NEW K, NEW S, NEW at, NEW after, NEW From \in SUBSET K, NEW to \in K, to \notin From,
         Placed(at, K, S), after[to] = at[to] \cup UNION {at[j] : j \in From},
         \A j \in From : after[j] = {}, \A j \in K \ From : j # to => after[j] = at[j]
  PROVE  Placed(after, K, S)
<1> SUFFICES ASSUME NEW x \in S PROVE \E k \in K : \A j \in K : x \in after[j] <=> j = k
  BY DEF Placed
<1>1. PICK k \in K : \A j \in K : x \in at[j] <=> j = k
  BY DEF Placed
<1>2. CASE k \in From
  <2>1. \A j \in K : x \in after[j] <=> j = to
    BY <1>1, <1>2
  <2> QED
    BY <2>1
<1>3. CASE k \notin From
  <2>1. \A j \in K : x \in after[j] <=> j = k
    BY <1>1, <1>3
  <2> QED
    BY <2>1
<1> QED
  BY <1>2, <1>3

LEMMA NblPlaceOf ==
  /\ NblAt["pool"] = nblPool /\ NblAt["posted"] = Held(posted)
  /\ NblAt["drained"] = Held(Column(drained, "nbl")) /\ NblAt["batch"] = Held(batch)
  /\ NblAt["ndis"] = UNION indicated /\ NblAt["returned"] = returned
  /\ NblAt["discarded"] = discarded
  /\ NblAt'["pool"] = nblPool' /\ NblAt'["posted"] = Held(posted')
  /\ NblAt'["drained"] = Held(Column(drained', "nbl")) /\ NblAt'["batch"] = Held(batch')
  /\ NblAt'["ndis"] = UNION indicated' /\ NblAt'["returned"] = returned'
  /\ NblAt'["discarded"] = discarded'
  BY DEF NblAt

LEMMA NblPlacesApart ==
  ASSUME TypeInv, NblInv
  PROVE  /\ Held(posted) \cap Held(Column(drained, "nbl")) = {}
         /\ Held(posted) \cap nblPool = {}
         /\ Held(batch) \cap Held(Column(drained, "nbl")) = {}
         /\ Held(batch) \cap UNION indicated = {}
<1>1. /\ Held(posted) \subseteq Nbls /\ Held(batch) \subseteq Nbls
  BY NobodyIsNone DEF TypeInv
<1>2. ASSUME NEW i \in NblWhere, NEW j \in NblWhere, i # j, NEW n \in Nbls
      PROVE  n \notin NblAt[i] \/ n \notin NblAt[j]
  BY <1>2, Apart DEF NblInv
<1> QED
  BY <1>1, <1>2, NblPlaceOf DEF NblWhere

LEMMA NblInit == ASSUME Init PROVE NblInv
<1>1. NblAt = [pool |-> Nbls, posted |-> {}, drained |-> {}, batch |-> {}, ndis |-> {},
               returned |-> {}, discarded |-> {}]
  BY EmptyList DEF Init, NblAt
<1>2. Placed(NblAt, NblWhere, Nbls)
  BY <1>1 DEF Placed, NblWhere
<1> QED
  BY <1>2, EmptyList DEF Init, NblInv, Disjoint

LEMMA NblCancel ==
  ASSUME TypeInv, NblInv, Cancel
  PROVE  NblInv'
<1> DEFINE p == [i \in DOMAIN posted |-> Ignored(posted[i])]
<1>1. \/ drained' = drained \o p /\ posted' = <<>>
      \/ UNCHANGED <<posted, drained>>
  BY DEF Cancel, EvtCancel, packetRing
<1>2. UNCHANGED <<nblPool, batch, indicated, returned, discarded>>
  BY DEF Cancel
<1>3. CASE UNCHANGED <<posted, drained>>
  BY <1>2, <1>3 DEF NblInv, NblAt
<1>4. CASE drained' = drained \o p /\ posted' = <<>>
  <2>1. Column(drained', "nbl") = Column(drained, "nbl") \o posted
    <3>1. p \in Seq(Packet) /\ Column(p, "nbl") = posted /\ drained \in Seq(Packet)
      BY GivenBack DEF TypeInv
    <3> HIDE DEF p
    <3>2. Column(drained \o p, "nbl") = Column(drained, "nbl") \o Column(p, "nbl")
      BY <3>1, Fields, ColumnOfConcat
    <3> QED
      BY <1>4, <3>1, <3>2
  <2>2. /\ Held(Column(drained', "nbl")) = Held(Column(drained, "nbl")) \cup Held(posted)
        /\ Sole(Column(drained', "nbl"))
    <3> DEFINE c == Column(drained, "nbl")
    <3>1. posted \in Seq(Nbls) /\ c \in Seq(Nbls)
      BY ColumnTypes DEF TypeInv
    <3>2. Sole(c) /\ Sole(posted) /\ Held(c) \cap Held(posted) = {}
      BY NblPlacesApart DEF NblInv
    <3> HIDE DEF c
    <3>3. Held(c \o posted) = Held(c) \cup Held(posted) /\ Sole(c \o posted)
      BY <3>1, <3>2, Concatenated
    <3> QED
      BY <2>1, <3>3 DEF c
  <2>3. Held(posted') = {} /\ Sole(posted')
    BY <1>4, EmptyList
  <2>4. Placed(NblAt', NblWhere, Nbls)
    <3> DEFINE at == NblAt
               after == NblAt'
    <3>1. /\ after["posted"] = at["posted"] \ Held(posted)
          /\ after["drained"] = at["drained"] \cup Held(posted) /\ Held(posted) \subseteq at["posted"]
          /\ \A j \in NblWhere \ {"posted", "drained"} : after[j] = at[j]
      BY <1>2, <2>2, <2>3, NblPlaceOf DEF NblWhere
    <3>2. Placed(at, NblWhere, Nbls) /\ "posted" \in NblWhere /\ "drained" \in NblWhere
      BY DEF NblInv, NblWhere
    <3> HIDE DEF at, after
    <3>3. Placed(after, NblWhere, Nbls)
      BY <3>1, <3>2, Relocated
    <3> QED
      BY <3>3 DEF after
  <2> QED
    BY <1>2, <2>2, <2>3, <2>4 DEF NblInv
<1> QED
  BY <1>1, <1>3, <1>4

\* The next packet of the driver.
LEMMA NblDrains ==
  ASSUME TypeInv, NblInv, NEW p \in Packet, p.nbl = Head(posted), posted # <<>>,
         drained' = Append(drained, p), posted' = Tail(posted),
         UNCHANGED <<nblPool, batch, indicated, returned, discarded>>
  PROVE  NblInv'
<1> DEFINE c == Column(drained, "nbl")
           n == Head(posted)
<1>1. drained \in Seq(Packet) /\ posted \in Seq(Nbls) /\ c \in Seq(Nbls)
  BY ColumnTypes DEF TypeInv
<1>2. Column(drained', "nbl") = Append(c, n)
  <2>1. Column(Append(drained, p), "nbl") = Append(Column(drained, "nbl"), p["nbl"])
    BY <1>1, Fields, ColumnsOfMore
  <2> QED
    BY <2>1
<1>3. /\ Held(posted) = ({n} \ {None}) \cup Held(posted') /\ n \in Nbls
      /\ Sole(posted') /\ n \notin Held(posted')
  BY <1>1, Shortened DEF NblInv
<1>4. n # None
  BY <1>3, NullIsNobody
<1>5. Held(Column(drained', "nbl")) = Held(c) \cup {n} /\ Sole(Column(drained', "nbl"))
  <2>1. n \notin Held(c)
    BY <1>3, <1>4, NblPlacesApart
  <2>2. Sole(c)
    BY DEF NblInv
  <2>0. n \in Nbls /\ c \in Seq(Nbls)
    BY <1>1, <1>3
  <2> HIDE DEF c, n
  <2>3. /\ Append(c, n) = c \o <<n>> /\ Held(Append(c, n)) = Held(c) \cup ({n} \ {None})
        /\ Sole(c) /\ n \notin Held(c) => Sole(Append(c, n))
    BY <2>0, Appended
  <2> QED
    BY <2>1, <2>2, <2>3, <1>2, <1>4
<1>6. Placed(NblAt', NblWhere, Nbls)
  <2>1. /\ NblAt'["posted"] = NblAt["posted"] \ {n} /\ NblAt'["drained"] = NblAt["drained"] \cup {n}
        /\ {n} \subseteq NblAt["posted"]
        /\ \A j \in NblWhere \ {"posted", "drained"} : NblAt'[j] = NblAt[j]
    <3>1. /\ NblAt["posted"] = {n} \cup Held(posted') /\ NblAt'["posted"] = Held(posted')
          /\ NblAt'["drained"] = NblAt["drained"] \cup {n}
      BY <1>3, <1>4, <1>5, NblPlaceOf
    <3>2. \A j \in NblWhere \ {"posted", "drained"} : NblAt'[j] = NblAt[j]
      BY NblPlaceOf DEF NblWhere
    <3> QED
      BY <3>1, <3>2, <1>3
  <2>2. Placed(NblAt, NblWhere, Nbls) /\ "posted" \in NblWhere /\ "drained" \in NblWhere
    BY DEF NblInv, NblWhere
  <2> QED
    BY <2>1, <2>2, Relocated
<1> QED
  BY <1>3, <1>5, <1>6 DEF NblInv

LEMMA NblReturn ==
  ASSUME TypeInv, NblInv, EcReturnBuffers
  PROVE  NblInv'
<1>1. /\ nblPool' = nblPool \cup (returned \cup discarded) /\ returned' = {} /\ discarded' = {}
      /\ UNCHANGED <<posted, drained, batch, indicated>>
  BY DEF EcReturnBuffers, packetRing
<1> DEFINE From == {"returned", "discarded"}
<1>2. /\ NblAt'["pool"] = NblAt["pool"] \cup UNION {NblAt[j] : j \in From}
      /\ \A j \in From : NblAt'[j] = {}
      /\ \A j \in NblWhere \ From : j # "pool" => NblAt'[j] = NblAt[j]
  <2>1. /\ NblAt'["pool"] = NblAt["pool"] \cup (NblAt["returned"] \cup NblAt["discarded"])
        /\ NblAt'["returned"] = {} /\ NblAt'["discarded"] = {}
    BY <1>1, NblPlaceOf
  <2>2. UNION {NblAt[j] : j \in From} = NblAt["returned"] \cup NblAt["discarded"]
    OBVIOUS
  <2>3. \A j \in NblWhere \ From : j # "pool" => NblAt'[j] = NblAt[j]
    BY <1>1, NblPlaceOf DEF NblWhere
  <2> QED
    BY <2>1, <2>2, <2>3
<1>3. /\ Placed(NblAt, NblWhere, Nbls) /\ From \in SUBSET NblWhere /\ "pool" \in NblWhere
      /\ "pool" \notin From
  BY DEF NblInv, NblWhere
<1> HIDE DEF From
<1>4. Placed(NblAt', NblWhere, Nbls)
  BY <1>2, <1>3, Gathers
<1> QED
  BY <1>1, <1>4 DEF NblInv

LEMMA NblPrepare ==
  ASSUME TypeInv, NblInv, EcPrepareBuffers
  PROVE  NblInv'
<1> DEFINE nbls == Popped(nblPool, SmallerOf(Room(PacketSlots, posted, drained),
                                             Cardinality(nblPool)))
<1>1. nbls \in Seq(Nbls) /\ Sole(nbls) /\ Held(nbls) \subseteq nblPool /\ ToSet(nbls) = Held(nbls)
  BY FromThePools
<1>2. /\ posted' = posted \o nbls /\ nblPool' = nblPool \ ToSet(nbls)
      /\ UNCHANGED <<drained, batch, indicated, returned, discarded>>
  BY Zenon DEF EcPrepareBuffers
<1> HIDE DEF nbls
<1>3. Held(posted') = Held(posted) \cup Held(nbls) /\ Sole(posted')
  <2>1. posted \in Seq(Nbls) /\ Sole(posted) /\ Held(posted) \cap Held(nbls) = {}
    BY <1>1, NblPlacesApart DEF TypeInv, NblInv
  <2>2. Held(posted \o nbls) = Held(posted) \cup Held(nbls) /\ Sole(posted \o nbls)
    BY <1>1, <2>1, Concatenated
  <2> QED
    BY <1>2, <2>2
<1>4. Placed(NblAt', NblWhere, Nbls)
  <2>1. /\ NblAt'["pool"] = NblAt["pool"] \ Held(nbls)
        /\ NblAt'["posted"] = NblAt["posted"] \cup Held(nbls) /\ Held(nbls) \subseteq NblAt["pool"]
        /\ \A j \in NblWhere \ {"pool", "posted"} : NblAt'[j] = NblAt[j]
    BY <1>1, <1>2, <1>3, NblPlaceOf DEF NblWhere
  <2>2. Placed(NblAt, NblWhere, Nbls) /\ "posted" \in NblWhere /\ "pool" \in NblWhere
    BY DEF NblInv, NblWhere
  <2> QED
    BY <2>1, <2>2, Relocated
<1> QED
  BY <1>2, <1>3, <1>4 DEF NblInv

LEMMA NblTransfer ==
  ASSUME TypeInv, NblInv, TransferDataBuffer
  PROVE  NblInv'
<1> DEFINE n == Head(drained).nbl
           c == Column(drained, "nbl")
<1>1. /\ drained # <<>> /\ drained' = Tail(drained)
      /\ \/ batch' = Append(batch, n) /\ UNCHANGED discarded
         \/ discarded' = discarded \cup {n} /\ UNCHANGED batch
      /\ UNCHANGED <<posted, nblPool, indicated, returned>>
  BY Zenon DEF TransferDataBuffer
<1>2. c \in Seq(Nbls) /\ batch \in Seq(Nbls) /\ drained \in Seq(Packet)
  BY ColumnTypes DEF TypeInv
<1>3. Column(drained', "nbl") = Tail(c) /\ c # <<>> /\ Head(c) = n
  <2>1. Column(Tail(drained), "nbl") = Tail(Column(drained, "nbl")) /\ Column(drained, "nbl") # <<>>
        /\ Head(Column(drained, "nbl")) = Head(drained)["nbl"]
    BY <1>1, <1>2, Fields, ColumnsOfLess
  <2> QED
    BY <1>1, <2>1
<1>4. Sole(c)
  BY DEF NblInv
<1> HIDE DEF c, n
<1>5. /\ Held(c) = ({n} \ {None}) \cup Held(Tail(c)) /\ n \in Nbls
      /\ Sole(Tail(c)) /\ n \notin Held(Tail(c))
  BY <1>2, <1>3, <1>4, Shortened
<1>6. n # None
  BY <1>5, NullIsNobody
<1>7. n \in Held(c) /\ Held(Tail(c)) = Held(c) \ {n}
  BY <1>5, <1>6
<1>8. /\ NblAt["drained"] = Held(c) /\ NblAt'["drained"] = Held(Tail(c))
  BY <1>3, NblPlaceOf DEF c
<1>9. /\ Placed(NblAt, NblWhere, Nbls) /\ "drained" \in NblWhere /\ "batch" \in NblWhere
      /\ "discarded" \in NblWhere
  BY DEF NblInv, NblWhere
<1>10. CASE batch' = Append(batch, n) /\ UNCHANGED discarded
  <2>1. Held(batch') = Held(batch) \cup {n} /\ Sole(batch')
    <3>1. n \notin Held(batch) /\ Sole(batch)
      BY <1>7, NblPlacesApart DEF c, NblInv
    <3>2. /\ Append(batch, n) = batch \o <<n>>
          /\ Held(Append(batch, n)) = Held(batch) \cup ({n} \ {None})
          /\ Sole(batch) /\ n \notin Held(batch) => Sole(Append(batch, n))
      BY <1>2, <1>5, Appended
    <3> QED
      BY <3>1, <3>2, <1>6, <1>10
  <2>2. /\ NblAt'["drained"] = NblAt["drained"] \ {n} /\ NblAt'["batch"] = NblAt["batch"] \cup {n}
        /\ {n} \subseteq NblAt["drained"]
        /\ \A j \in NblWhere \ {"drained", "batch"} : NblAt'[j] = NblAt[j]
    BY <1>1, <1>7, <1>8, <1>10, <2>1, NblPlaceOf DEF NblWhere
  <2>3. Placed(NblAt', NblWhere, Nbls)
    BY <2>2, <1>9, Relocated
  <2> QED
    BY <2>1, <2>3, <1>1, <1>3, <1>5 DEF NblInv
<1>11. CASE discarded' = discarded \cup {n} /\ UNCHANGED batch
  <2>1. /\ NblAt'["drained"] = NblAt["drained"] \ {n}
        /\ NblAt'["discarded"] = NblAt["discarded"] \cup {n}
        /\ {n} \subseteq NblAt["drained"]
        /\ \A j \in NblWhere \ {"drained", "discarded"} : NblAt'[j] = NblAt[j]
    BY <1>1, <1>7, <1>8, <1>11, NblPlaceOf DEF NblWhere
  <2>2. Placed(NblAt', NblWhere, Nbls)
    BY <2>1, <1>9, Relocated
  <2> QED
    BY <2>2, <1>1, <1>3, <1>5, <1>11 DEF NblInv
<1> QED
  BY <1>1, <1>10, <1>11

LEMMA NblIndicate ==
  ASSUME TypeInv, NblInv, IndicateReceiveNetBufferLists
  PROVE  NblInv'
<1>1. /\ batch' = <<>>
      /\ \/ \E units \in Coalesced(batch) : indicated' = indicated \cup units /\ UNCHANGED discarded
         \/ discarded' = discarded \cup ToSet(batch) /\ UNCHANGED indicated
      /\ UNCHANGED <<posted, drained, nblPool, returned>>
  BY DEF IndicateReceiveNetBufferLists, packetRing
<1>2. Held(batch') = {} /\ Sole(batch')
  BY <1>1, EmptyList
<1>3. ToSet(batch) = Held(batch) /\ batch \in Seq(Nbls)
  BY NobodyIsNone DEF TypeInv
<1>4. /\ Placed(NblAt, NblWhere, Nbls) /\ "batch" \in NblWhere /\ "ndis" \in NblWhere
      /\ "discarded" \in NblWhere
  BY DEF NblInv, NblWhere
<1>5. ASSUME NEW units \in Coalesced(batch), indicated' = indicated \cup units, UNCHANGED discarded
      PROVE  NblInv'
  <2>1. UNION units = Held(batch) /\ Disjoint(units)
    BY <1>3, Units DEF NblInv
  <2>2. UNION indicated' = Held(batch) \cup UNION indicated
    BY <1>5, <2>1
  <2>3. Disjoint(indicated')
    <3>1. Disjoint(indicated) /\ Held(batch) \cap UNION indicated = {}
      BY NblPlacesApart DEF NblInv
    <3>2. \A u \in units : u \subseteq Held(batch)
      BY <2>1
    <3>3. \A u \in indicated : u \subseteq UNION indicated
      OBVIOUS
    <3>4. ASSUME NEW u \in units, NEW v \in indicated PROVE u \cap v = {}
      BY <3>1, <3>2, <3>3
    <3> QED
      BY <1>5, <2>1, <3>1, <3>4 DEF Disjoint
  <2>4. /\ NblAt'["batch"] = NblAt["batch"] \ Held(batch)
        /\ NblAt'["ndis"] = NblAt["ndis"] \cup Held(batch) /\ Held(batch) \subseteq NblAt["batch"]
        /\ \A j \in NblWhere \ {"batch", "ndis"} : NblAt'[j] = NblAt[j]
    BY <1>1, <1>2, <1>5, <2>2, NblPlaceOf DEF NblWhere
  <2>5. Placed(NblAt', NblWhere, Nbls)
    BY <2>4, <1>4, Relocated
  <2> QED
    BY <2>3, <2>5, <1>1, <1>2 DEF NblInv
<1>6. CASE discarded' = discarded \cup ToSet(batch) /\ UNCHANGED indicated
  <2>1. /\ NblAt'["batch"] = NblAt["batch"] \ Held(batch)
        /\ NblAt'["discarded"] = NblAt["discarded"] \cup Held(batch)
        /\ Held(batch) \subseteq NblAt["batch"]
        /\ \A j \in NblWhere \ {"batch", "discarded"} : NblAt'[j] = NblAt[j]
    BY <1>1, <1>2, <1>3, <1>6, NblPlaceOf DEF NblWhere
  <2>2. Placed(NblAt', NblWhere, Nbls)
    BY <2>1, <1>4, Relocated
  <2> QED
    BY <2>2, <1>1, <1>2, <1>6 DEF NblInv
<1> QED
  BY <1>1, <1>5, <1>6

LEMMA NblRecover ==
  ASSUME TypeInv, NblInv, EcRecoverBuffers
  PROVE  NblInv'
<1> DEFINE c == Column(drained, "nbl")
           From == {"drained"}
<1>1. /\ nblPool' = nblPool \cup {drained[i].nbl : i \in DOMAIN drained} /\ drained' = <<>>
      /\ UNCHANGED <<posted, batch, indicated, returned, discarded>>
  BY DEF EcRecoverBuffers
<1>2. {drained[i].nbl : i \in DOMAIN drained} = Held(c)
  <2>1. {drained[i].nbl : i \in DOMAIN drained} = ToSet(c)
    BY DEF ToSet, Column
  <2> QED
    BY <2>1, ColumnTypes, NobodyIsNone
<1>3. Held(Column(drained', "nbl")) = {} /\ Sole(Column(drained', "nbl"))
  BY <1>1, EmptyList
<1>4. /\ NblAt'["pool"] = NblAt["pool"] \cup UNION {NblAt[j] : j \in From}
      /\ \A j \in From : NblAt'[j] = {}
      /\ \A j \in NblWhere \ From : j # "pool" => NblAt'[j] = NblAt[j]
  <2>1. NblAt'["pool"] = NblAt["pool"] \cup NblAt["drained"] /\ NblAt'["drained"] = {}
    BY <1>1, <1>2, <1>3, NblPlaceOf
  <2>2. UNION {NblAt[j] : j \in From} = NblAt["drained"]
    OBVIOUS
  <2>3. \A j \in NblWhere \ From : j # "pool" => NblAt'[j] = NblAt[j]
    BY <1>1, NblPlaceOf DEF NblWhere
  <2> QED
    BY <2>1, <2>2, <2>3
<1>5. /\ Placed(NblAt, NblWhere, Nbls) /\ From \in SUBSET NblWhere /\ "pool" \in NblWhere
      /\ "pool" \notin From
  BY DEF NblInv, NblWhere
<1> HIDE DEF From
<1>6. Placed(NblAt', NblWhere, Nbls)
  BY <1>4, <1>5, Gathers
<1> QED
  BY <1>1, <1>3, <1>6 DEF NblInv

LEMMA NblReturned ==
  ASSUME TypeInv, NblInv, NEW unit \in indicated, ReturnNetBufferLists(unit)
  PROVE  NblInv'
<1>1. /\ indicated' = indicated \ {unit} /\ returned' = returned \cup unit
      /\ UNCHANGED <<posted, drained, nblPool, batch, discarded>>
  BY DEF ReturnNetBufferLists, packetRing
<1>2. UNION indicated' = (UNION indicated) \ unit /\ Disjoint(indicated')
  <2>1. \A u \in indicated' : u \cap unit = {}
    BY <1>1 DEF NblInv, Disjoint
  <2>2. Disjoint(indicated')
    BY <1>1 DEF NblInv, Disjoint
  <2> QED
    BY <1>1, <2>1, <2>2
<1>3. /\ NblAt'["ndis"] = NblAt["ndis"] \ unit
      /\ NblAt'["returned"] = NblAt["returned"] \cup unit /\ unit \subseteq NblAt["ndis"]
      /\ \A j \in NblWhere \ {"ndis", "returned"} : NblAt'[j] = NblAt[j]
  BY <1>1, <1>2, NblPlaceOf DEF NblWhere
<1>4. Placed(NblAt, NblWhere, Nbls) /\ "ndis" \in NblWhere /\ "returned" \in NblWhere
  BY DEF NblInv, NblWhere
<1>5. Placed(NblAt', NblWhere, Nbls)
  BY <1>3, <1>4, Relocated
<1> QED
  BY <1>1, <1>2, <1>5 DEF NblInv

\* A pool that has all is all there is.
LEMMA NblsAllInPool ==
  ASSUME TypeInv, NblInv, nblPool = Nbls
  PROVE  /\ Held(posted) = {} /\ Held(Column(drained, "nbl")) = {} /\ Held(batch) = {}
         /\ UNION indicated = {} /\ returned = {} /\ discarded = {}
<1>1. /\ Held(posted) \subseteq Nbls /\ Held(batch) \subseteq Nbls
      /\ Held(Column(drained, "nbl")) \subseteq Nbls
      /\ UNION indicated \subseteq Nbls /\ returned \subseteq Nbls /\ discarded \subseteq Nbls
  BY NobodyIsNone, ColumnTypes DEF TypeInv
<1>2. ASSUME NEW j \in NblWhere, j # "pool", NEW n \in Nbls PROVE n \notin NblAt[j]
  <2>1. n \in NblAt["pool"] /\ "pool" \in NblWhere
    BY NblPlaceOf DEF NblWhere
  <2> QED
    BY <2>1, <1>2, Apart DEF NblInv
<1> QED
  BY <1>1, <1>2, NblPlaceOf DEF NblWhere

LEMMA NblStart ==
  ASSUME TypeInv, NblInv, nblPool = Nbls, Start
  PROVE  NblInv'
<1>1. /\ posted' = <<>> /\ drained' = <<>>
      /\ UNCHANGED <<nblPool, batch, indicated, returned, discarded>>
  BY DEF Start
<1>2. /\ Held(posted') = {} /\ Held(Column(drained', "nbl")) = {}
      /\ Sole(posted') /\ Sole(Column(drained', "nbl"))
  BY <1>1, EmptyList
<1>3. \A j \in NblWhere : NblAt'[j] = NblAt[j]
  BY <1>1, <1>2, NblsAllInPool, NblPlaceOf DEF NblWhere
<1>4. Placed(NblAt', NblWhere, Nbls)
  BY <1>3, Stays DEF NblInv
<1> QED
  BY <1>1, <1>2, <1>4 DEF NblInv

LEMMA NblStep ==
  ASSUME TypeInv, NblInv, LifeInv, [Next]_vars
  PROVE  NblInv'
<1>1. CASE OpenGate \/ CloseGate \/ DeviceNotifies \/ Stop \/ DriverSkips
             \/ PreAdvancePostDataBuffer \/ PostAdvanceRefCounting
  BY <1>1 DEF NblInv, NblAt, OpenGate, CloseGate, DeviceNotifies, Stop, DriverSkips,
              PreAdvancePostDataBuffer, PostAdvanceRefCounting, packetRing
<1>2. CASE Start
  BY <1>2, NblStart DEF Start, LifeInv
<1>3. ASSUME NEW unit \in indicated, ReturnNetBufferLists(unit) PROVE NblInv'
  BY <1>3, NblReturned
<1>4. CASE DriverReceives
  <2>1. PICK count \in 1 .. SmallerOf(MaxFragments, Len(offered)), valid \in BOOLEAN :
          /\ drained' = Append(drained, [nbl |-> Head(posted), count |-> count,
                                         ignore |-> FALSE, valid |-> valid])
          /\ posted' = Tail(posted)
    BY <1>4 DEF DriverReceives
  <2> DEFINE p == [nbl |-> Head(posted), count |-> count, ignore |-> FALSE, valid |-> valid]
  <2>2. posted # <<>> /\ UNCHANGED <<nblPool, batch, indicated, returned, discarded>>
    BY <1>4 DEF DriverReceives
  <2>3. count \in Nat /\ Head(posted) \in Nbls
    <3>1. count \in 1 .. SmallerOf(MaxFragments, Len(offered)) => count \in Nat
      OBVIOUS
    <3> QED
      BY <2>2, <3>1, Shortened DEF TypeInv
  <2>4. p \in Packet /\ p.nbl = Head(posted)
    BY <2>3 DEF Packet
  <2> HIDE DEF p
  <2>5. drained' = Append(drained, p)
    BY <2>1 DEF p
  <2> QED
    BY <2>1, <2>2, <2>4, <2>5, NblDrains
<1>5. CASE DriverIgnores
  <2> DEFINE p == Ignored(Head(posted))
  <2>1. /\ posted # <<>> /\ UNCHANGED <<nblPool, batch, indicated, returned, discarded>>
        /\ drained' = Append(drained, p) /\ posted' = Tail(posted)
    BY <1>5 DEF DriverIgnores
  <2>2. p \in Packet /\ p.nbl = Head(posted)
    <3>1. Head(posted) \in Nbls
      BY <2>1, Shortened DEF TypeInv
    <3> QED
      BY <3>1 DEF Ignored, Packet
  <2> HIDE DEF p
  <2> QED
    BY <2>1, <2>2, NblDrains
<1>6. CASE UNCHANGED vars
  BY <1>6 DEF NblInv, NblAt, vars, packetRing
<1> QED
  BY <1>1, <1>2, <1>3, <1>4, <1>5, <1>6, NblCancel, NblReturn, NblPrepare, NblTransfer,
     NblIndicate, NblRecover
  DEF Next, DriverAdvances, Poll

-----------------------------------------------------------------------------
(* The chains of the NBLs, and the layout of the fragments.                 *)
LEMMA ChainInit == ASSUME Init PROVE ChainInv
  BY DEF Init, ChainInv

LEMMA ChainStep ==
  ASSUME TypeInv, NblInv, ChainInv, LifeInv, [Next]_vars
  PROVE  ChainInv'
<1>1. CASE OpenGate \/ CloseGate \/ DeviceNotifies \/ Stop \/ DriverSkips \/ DriverIgnores
             \/ DriverReceives \/ PreAdvancePostDataBuffer \/ PostAdvanceRefCounting
             \/ EcRecoverBuffers \/ EcPrepareBuffers \/ Start \/ Cancel
  <2>1. UNCHANGED <<chain, batch, indicated, returned, discarded>>
    BY <1>1 DEF OpenGate, CloseGate, DeviceNotifies, Stop, DriverSkips, DriverIgnores,
       DriverReceives, PreAdvancePostDataBuffer, PostAdvanceRefCounting, EcRecoverBuffers,
       EcPrepareBuffers, Start, Cancel
  <2> QED
    BY <2>1 DEF ChainInv, Carriers
<1>2. CASE EcReturnBuffers
  <2> DEFINE back == returned \cup discarded
  <2>1. /\ chain' = [n \in Nbls |-> IF n \in back THEN {} ELSE chain[n]]
        /\ UNCHANGED <<batch, indicated>>
    BY <1>2 DEF EcReturnBuffers, FreeReceivedDataBuffer
  <2>2. ASSUME NEW n \in Nbls \ Carriers', n \notin back PROVE n \in Nbls \ Carriers
    BY <2>1, <2>2 DEF Carriers
  <2> QED
    BY <2>1, <2>2 DEF ChainInv
<1>3. CASE TransferDataBuffer
  <2> DEFINE nbl == Head(drained).nbl
  <2>1. /\ \/ UNCHANGED chain
           \/ \E parts : chain' = [chain EXCEPT ![nbl] = parts]
        /\ \/ batch' = Append(batch, nbl) /\ UNCHANGED discarded
           \/ discarded' = discarded \cup {nbl} /\ UNCHANGED batch
        /\ UNCHANGED <<indicated, returned>> /\ drained # <<>>
    BY <1>3 DEF TransferDataBuffer
  <2>2. nbl \in Nbls
    <3>1. drained \in Seq(Packet) /\ drained # <<>>
      BY <2>1 DEF TypeInv
    <3>2. Head(drained) \in Packet
      BY <3>1, Shortened
    <3> QED
      BY <3>2 DEF Packet
  <2> HIDE DEF nbl
  <2>4. \/ ToSet(batch') = ToSet(batch) \cup {nbl} /\ UNCHANGED discarded
        \/ discarded' = discarded \cup {nbl} /\ UNCHANGED batch
    <3>1. batch \in Seq(Nbls)
      BY DEF TypeInv
    <3>2. /\ Append(batch, nbl) = batch \o <<nbl>>
          /\ Held(Append(batch, nbl)) = Held(batch) \cup ({nbl} \ {None})
          /\ Sole(batch) /\ nbl \notin Held(batch) => Sole(Append(batch, nbl))
      BY <2>2, <3>1, Appended
    <3>3. Append(batch, nbl) \in Seq(Nbls)
      BY <2>2, <3>1, AppendProperties
    <3>4. ToSet(Append(batch, nbl)) = ToSet(batch) \cup {nbl}
      BY <3>1, <3>2, <3>3, <2>2, NobodyIsNone, NullIsNobody
    <3> QED
      BY <3>4, <2>1
  <2>5. Carriers' = Carriers \cup {nbl}
    BY <2>1, <2>4 DEF Carriers
  <2>6. \A n \in Nbls : n # nbl => chain'[n] = chain[n]
    BY <2>1 DEF TypeInv
  <2> QED
    BY <2>5, <2>6 DEF ChainInv
<1>4. CASE IndicateReceiveNetBufferLists
  <2>1. /\ batch' = <<>>
        /\ \/ \E units \in Coalesced(batch) : indicated' = indicated \cup units /\ UNCHANGED discarded
           \/ discarded' = discarded \cup ToSet(batch) /\ UNCHANGED indicated
        /\ UNCHANGED <<returned, chain>>
    BY <1>4 DEF IndicateReceiveNetBufferLists
  <2>2. ASSUME NEW units \in Coalesced(batch) PROVE UNION units = ToSet(batch)
    BY Units DEF TypeInv
  <2>3. Carriers \subseteq Carriers'
    BY <2>1, <2>2 DEF Carriers
  <2> QED
    BY <2>1, <2>3 DEF ChainInv
<1>5. ASSUME NEW unit \in indicated, ReturnNetBufferLists(unit) PROVE ChainInv'
  <2>1. /\ indicated' = indicated \ {unit} /\ returned' = returned \cup unit
        /\ UNCHANGED <<batch, discarded, chain>>
    BY <1>5 DEF ReturnNetBufferLists
  <2>2. UNION indicated \subseteq unit \cup UNION indicated'
    BY <2>1
  <2>3. Carriers \subseteq Carriers'
    BY <2>1, <2>2 DEF Carriers
  <2> QED
    BY <2>1, <2>3 DEF ChainInv
<1>6. CASE UNCHANGED vars
  BY <1>6 DEF ChainInv, Carriers, vars
<1> QED
  BY <1>1, <1>2, <1>3, <1>4, <1>5, <1>6 DEF Next, DriverAdvances, Poll

LEMMA LayoutInit == ASSUME Init PROVE LayoutInv
  BY LaidEmpty DEF Init, LayoutInv

\* No two fragments of a packet have the same memory.
LEMMA MemoryOfItsOwn ==
  ASSUME TypeInv, MdlInv, PoolInv, NEW count \in 1 .. SmallerOf(MaxFragments, Len(offered)),
         mode = "DRIVER" => count <= Cardinality(driverMemory),
         mode = "ALLOCATE" => count <= Len(bufferRing)
  PROVE  Sole(Column(Attached(count), "memory"))
<1>1. /\ count \in 1 .. Len(offered)
      /\ mode = "DRIVER" => Column(Attached(count), "memory") = Popped(driverMemory, count)
      /\ mode = "ATTACH" => Column(Attached(count), "memory") = SubSeq(offered, 1, count)
      /\ mode = "ALLOCATE" => Column(Attached(count), "memory") = SubSeq(bufferRing, 1, count)
  BY WithMemory
<1>2. CASE mode = "DRIVER"
  <2>1. count \in Int /\ count <= Cardinality(driverMemory)
    BY <1>1, <1>2
  <2>2. Sole(Popped(driverMemory, count))
    BY <2>1, ColumnTypes, PoppedFromPool
  <2> QED
    BY <2>2, <1>1, <1>2
<1>3. CASE mode = "ATTACH"
  <2>1. count \in 0 .. Len(offered)
    BY <1>1
  <2>2. Sole(SubSeq(offered, 1, count))
    BY <2>1, <1>3, Parted DEF TypeInv, MdlInv
  <2> QED
    BY <2>2, <1>1, <1>3
<1>4. CASE mode = "ALLOCATE"
  <2>1. count \in 0 .. Len(bufferRing)
    BY <1>1, <1>4, LenProperties DEF TypeInv
  <2>2. Sole(SubSeq(bufferRing, 1, count))
    BY <2>1, <1>4, Parted DEF TypeInv, PoolInv
  <2> QED
    BY <2>2, <1>1, <1>4
<1> QED
  BY <1>2, <1>3, <1>4 DEF TypeInv

LEMMA LayoutReceive ==
  ASSUME TypeInv, LayoutInv, MdlInv, PoolInv, DriverReceives
  PROVE  LayoutInv'
<1>1. PICK count \in 1 .. SmallerOf(MaxFragments, Len(offered)), valid \in BOOLEAN :
        /\ TakesMemory(count)
        /\ filled' = filled \o Attached(count)
        /\ drained' = Append(drained, [nbl |-> Head(posted), count |-> count,
                                       ignore |-> FALSE, valid |-> valid])
  BY DEF DriverReceives
<1> DEFINE t == Attached(count)
           p == [nbl |-> Head(posted), count |-> count, ignore |-> FALSE, valid |-> valid]
<1>2. /\ count \in 1 .. Len(offered) /\ t \in Seq(Fragments(mode)) /\ Len(t) = count
      /\ \A i \in 1 .. count : ~t[i].skipped
  BY <1>1, WithMemory DEF TakesMemory
<1>3. Sole(Column(t, "memory"))
  BY <1>1, MemoryOfItsOwn DEF TakesMemory
<1>4. p \in Packet /\ ~p.ignore /\ p.count = count /\ count > 0
  <2>1. posted # <<>>
    BY DEF DriverReceives
  <2>2. Head(posted) \in Nbls
    BY <2>1, Shortened DEF TypeInv
  <2>3. count \in Nat /\ count > 0
    BY <1>2
  <2> QED
    BY <2>2, <2>3 DEF Packet
<1> HIDE DEF t, p
<1>5. t \in Seq(FragmentType) /\ filled \in Seq(FragmentType) /\ drained \in Seq(Packet)
  BY <1>2, SubTypes DEF TypeInv
<1>6. ASSUME NEW i \in 1 .. Len(t), NEW j \in 1 .. Len(t), t[i].memory = t[j].memory PROVE i = j
  <2>1. \A k \in 1 .. Len(t) : t[k].memory # None
    <3>1. \A k \in 1 .. Len(t) : t[k] \in Fragments(mode) /\ ~t[k].skipped
      BY <1>2, LenProperties, ElementOfSeq
    <3> QED
      BY <3>1 DEF Fragments
  <2>2. DOMAIN Column(t, "memory") = 1 .. Len(t)
        /\ \A k \in 1 .. Len(t) : Column(t, "memory")[k] = t[k].memory
    BY <1>2, LenProperties DEF Column
  <2> QED
    BY <1>3, <1>6, <2>1, <2>2 DEF Sole
<1>7. Laid(Append(drained, p), filled \o t)
  BY <1>2, <1>4, <1>5, <1>6, LaidPacket DEF LayoutInv
<1> QED
  BY <1>1, <1>7 DEF LayoutInv, t, p

LEMMA LayoutStep ==
  ASSUME TypeInv, LayoutInv, MdlInv, PoolInv, [Next]_vars
  PROVE  LayoutInv'
<1>0. drained \in Seq(Packet) /\ filled \in Seq(FragmentType)
  BY ColumnTypes DEF TypeInv
<1>1. CASE OpenGate \/ CloseGate \/ DeviceNotifies \/ Stop \/ EcReturnBuffers \/ EcPrepareBuffers
             \/ PreAdvancePostDataBuffer \/ PostAdvanceRefCounting
  BY <1>1 DEF OpenGate, CloseGate, DeviceNotifies, Stop, EcReturnBuffers, EcPrepareBuffers,
     PreAdvancePostDataBuffer, PostAdvanceRefCounting, packetRing, fragmentRing, LayoutInv
<1>2. CASE Start \/ EcRecoverBuffers
  BY <1>2, LaidEmpty DEF Start, EcRecoverBuffers, LayoutInv
<1>3. CASE Cancel
  <2> DEFINE p == [i \in DOMAIN posted |-> Ignored(posted[i])]
             t == [i \in DOMAIN offered |-> SkippedFragment(offered[i])]
  <2>1. \/ drained' = drained \o p /\ filled' = filled \o t
        \/ UNCHANGED <<drained, filled>>
    BY <1>3 DEF Cancel, EvtCancel, packetRing, fragmentRing
  <2>2. /\ p \in Seq(Packet) /\ \A i \in 1 .. Len(p) : p[i].ignore
        /\ t \in Seq(Fragments(mode)) /\ \A i \in 1 .. Len(t) : t[i].skipped
    BY GivenBack
  <2> HIDE DEF p, t
  <2>3. drained \o p \in Seq(Packet) /\ t \in Seq(FragmentType)
    BY <1>0, <2>2, SubTypes, ConcatProperties
  <2>4. Laid(drained \o p, filled)
    BY <1>0, <2>2, LaidIgnored DEF LayoutInv
  <2>5. Laid(drained \o p, filled \o t)
    BY <1>0, <2>2, <2>3, <2>4, LaidSkipped
  <2> QED
    BY <2>1, <2>5 DEF LayoutInv
<1>4. CASE DriverIgnores
  <2> DEFINE p == Ignored(Head(posted))
             e == <<p>>
  <2>1. posted # <<>> /\ drained' = Append(drained, p) /\ UNCHANGED filled
    BY <1>4 DEF DriverIgnores, fragmentRing
  <2>2. p \in Packet /\ p.ignore
    <3>1. Head(posted) \in Nbls
      BY <2>1, Shortened DEF TypeInv
    <3> QED
      BY <3>1 DEF Ignored, Packet
  <2> HIDE DEF p
  <2>3. e \in Seq(Packet) /\ (\A i \in 1 .. Len(e) : e[i].ignore) /\ Append(drained, p) = drained \o e
    BY <1>0, <2>2, AppendIsConcat
  <2> HIDE DEF e
  <2>4. Laid(drained \o e, filled)
    BY <1>0, <2>3, LaidIgnored DEF LayoutInv
  <2> QED
    BY <2>1, <2>3, <2>4 DEF LayoutInv
<1>5. CASE DriverSkips
  <2> DEFINE x == SkippedFragment(Head(offered))
             t == <<x>>
  <2>1. offered # <<>> /\ filled' = Append(filled, x) /\ UNCHANGED drained /\ mode # "ALLOCATE"
    BY <1>5 DEF DriverSkips, packetRing
  <2>2. x \in FragmentType /\ x.skipped
    <3>1. Head(offered) \in Offers(mode)
      BY <2>1, Shortened DEF TypeInv
    <3> QED
      BY <3>1, <2>1 DEF SkippedFragment, FragmentType, Offers, Memory
  <2> HIDE DEF x
  <2>3. /\ t \in Seq(FragmentType) /\ \A i \in 1 .. Len(t) : t[i].skipped
        /\ Append(filled, x) = filled \o t
    BY <1>0, <2>2, AppendIsConcat
  <2> HIDE DEF t
  <2>4. Laid(drained, filled \o t)
    BY <1>0, <2>3, LaidSkipped DEF LayoutInv
  <2> QED
    BY <2>1, <2>3, <2>4 DEF LayoutInv
<1>6. CASE TransferDataBuffer
  <2> DEFINE packet == Head(drained)
             next == FirstUsed(filled) + packet.count
             rest == SubSeq(filled, next, Len(filled))
  <2>1. /\ drained # <<>> /\ drained' = Tail(drained)
        /\ packet.ignore => UNCHANGED filled
        /\ ~packet.ignore => filled' = rest
    BY <1>6, Zenon DEF TransferDataBuffer, FirstUsed
  <2>2. /\ packet.ignore => Laid(Tail(drained), filled)
        /\ ~packet.ignore => Laid(Tail(drained), rest)
    BY <1>0, <2>1, NextPacket DEF LayoutInv
  <2> HIDE DEF packet, next, rest
  <2> QED
    BY <2>1, <2>2 DEF LayoutInv
<1>7. CASE IndicateReceiveNetBufferLists
  <2>1. UNCHANGED drained /\ (UNCHANGED filled \/ (drained = <<>> /\ filled' = <<>>))
    BY <1>7 DEF IndicateReceiveNetBufferLists, packetRing
  <2> QED
    BY <2>1, LaidEmpty DEF LayoutInv
<1>8. ASSUME NEW unit \in indicated, ReturnNetBufferLists(unit) PROVE LayoutInv'
  BY <1>8 DEF ReturnNetBufferLists, packetRing, fragmentRing, LayoutInv
<1>9. CASE UNCHANGED vars
  BY <1>9 DEF vars, packetRing, fragmentRing, LayoutInv
<1> QED
  BY <1>1, <1>2, <1>3, <1>4, <1>5, <1>6, <1>7, <1>8, <1>9, LayoutReceive
  DEF Next, DriverAdvances, Poll

-----------------------------------------------------------------------------
(* What the gate counts.                                                    *)
LEMMA RundownInit == ASSUME Init PROVE RundownInv
  BY FS_EmptySet DEF Init, RundownInv

LEMMA FiniteUnits ==
  ASSUME TypeInv
  PROVE  /\ IsFiniteSet(indicated) /\ Cardinality(indicated) \in Nat
         /\ IsFiniteSet(Carriers) /\ Carriers \subseteq Nbls
<1>1. IsFiniteSet(SUBSET Nbls)
  BY FinitelyMany, FS_SUBSET
<1>2. IsFiniteSet(indicated)
  BY <1>1, FS_Subset DEF TypeInv
<1>3. Cardinality(indicated) \in Nat
  BY <1>2, FS_CardinalityType
<1>4. UNION indicated \subseteq Nbls /\ ToSet(batch) \subseteq Nbls
  BY NobodyIsNone DEF TypeInv
<1>5. Carriers \subseteq Nbls
  BY <1>4 DEF Carriers, TypeInv
<1> QED
  BY <1>2, <1>3, <1>5, FinitelyMany, FS_Subset

LEMMA RundownIndicate ==
  ASSUME TypeInv, NblInv, RundownInv, IndicateReceiveNetBufferLists
  PROVE  RundownInv'
<1>1. CASE UNCHANGED <<indicated, rundown>>
  BY <1>1 DEF RundownInv
<1>2. CASE ~UNCHANGED <<indicated, rundown>>
  <2>1. PICK units \in Coalesced(batch) : /\ indicated' = indicated \cup units
                                          /\ rundown' = rundown + Cardinality(units)
    BY <1>2, Zenon DEF IndicateReceiveNetBufferLists
  <2>2. UNION units = ToSet(batch) /\ {} \notin units /\ units \in SUBSET SUBSET Nbls
    BY Units DEF TypeInv
  <2>3. IsFiniteSet(units) /\ IsFiniteSet(indicated)
    <3>1. IsFiniteSet(SUBSET Nbls)
      BY FinitelyMany, FS_SUBSET
    <3> QED
      BY <3>1, <2>2, FS_Subset DEF TypeInv
  <2>4. indicated \cap units = {}
    <3>1. SUFFICES ASSUME NEW u \in indicated, u \in units PROVE FALSE
      OBVIOUS
    <3>2. u \subseteq ToSet(batch) /\ u \subseteq UNION indicated /\ u # {}
      BY <2>2, <3>1
    <3>3. Held(batch) \cap UNION indicated = {} /\ ToSet(batch) = Held(batch)
      BY NblPlacesApart, NobodyIsNone DEF TypeInv
    <3> QED
      BY <3>2, <3>3
  <2>5. Cardinality(indicated \cup units)
          = Cardinality(indicated) + Cardinality(units) - Cardinality(indicated \cap units)
    BY <2>3, FS_Union
  <2>6. Cardinality(indicated \cap units) = 0
    BY <2>4, FS_EmptySet
  <2>7. Cardinality(indicated) \in Nat /\ Cardinality(units) \in Nat
    BY <2>3, FS_CardinalityType
  <2> QED
    BY <2>1, <2>5, <2>6, <2>7 DEF RundownInv
<1> QED
  BY <1>1, <1>2

LEMMA RundownStep ==
  ASSUME TypeInv, NblInv, LifeInv, RundownInv, [Next]_vars
  PROVE  RundownInv'
<1>1. CASE OpenGate
  <2>1. rundown' = 0 /\ UNCHANGED indicated /\ nblPool = Nbls
    BY <1>1 DEF OpenGate, LifeInv
  <2>2. UNION indicated = {}
    BY <2>1, NblsAllInPool
  <2>3. indicated = {}
    <3>1. ASSUME NEW u \in indicated PROVE FALSE
      <4>1. u \subseteq {} /\ u # {}
        BY <2>2 DEF TypeInv
      <4> QED
        BY <4>1
    <3> QED
      BY <3>1
  <2> QED
    BY <2>1, <2>3, FS_EmptySet DEF RundownInv
<1>2. ASSUME NEW unit \in indicated, ReturnNetBufferLists(unit) PROVE RundownInv'
  <2>1. indicated' = indicated \ {unit} /\ rundown' = rundown - 1
    BY <1>2 DEF ReturnNetBufferLists
  <2>2. IsFiniteSet(indicated)
    BY FiniteUnits
  <2>3. Cardinality(indicated \ {unit}) = Cardinality(indicated) - 1
    BY <2>2, FS_RemoveElement
  <2> QED
    BY <2>1, <2>3 DEF RundownInv
<1>3. CASE CloseGate \/ DeviceNotifies \/ Stop \/ DriverSkips \/ DriverIgnores \/ DriverReceives
             \/ PreAdvancePostDataBuffer \/ PostAdvanceRefCounting \/ EcRecoverBuffers
             \/ EcPrepareBuffers \/ EcReturnBuffers \/ TransferDataBuffer \/ Start \/ Cancel
             \/ UNCHANGED vars
  BY <1>3 DEF CloseGate, DeviceNotifies, Stop, DriverSkips, DriverIgnores, DriverReceives,
     PreAdvancePostDataBuffer, PostAdvanceRefCounting, EcRecoverBuffers, EcPrepareBuffers,
     EcReturnBuffers, TransferDataBuffer, Start, Cancel, vars, gate, RundownInv
<1> QED
  BY <1>1, <1>2, <1>3, RundownIndicate DEF Next, DriverAdvances, Poll

-----------------------------------------------------------------------------
(* Four places for a buffer.                                                *)
LEMMA FourPlaces ==
  ASSUME NEW a, NEW b, NEW c, NEW d
  PROVE  Four(a, b, c, d)
           <=> \A x \in Buffers :
                 /\ x \in a \/ x \in b \/ x \in c \/ x \in d
                 /\ x \in a => x \notin b /\ x \notin c /\ x \notin d
                 /\ x \in b => x \notin c /\ x \notin d
                 /\ x \in c => x \notin d
<1> DEFINE at == <<a, b, c, d>>
           One(x) == /\ x \in a \/ x \in b \/ x \in c \/ x \in d
                     /\ x \in a => x \notin b /\ x \notin c /\ x \notin d
                     /\ x \in b => x \notin c /\ x \notin d
                     /\ x \in c => x \notin d
<1>1. /\ at[1] = a /\ at[2] = b /\ at[3] = c /\ at[4] = d
      /\ \A k \in 1 .. 4 : k = 1 \/ k = 2 \/ k = 3 \/ k = 4
      /\ 1 \in 1 .. 4 /\ 2 \in 1 .. 4 /\ 3 \in 1 .. 4 /\ 4 \in 1 .. 4
  OBVIOUS
<1> HIDE DEF at
<1>2. ASSUME NEW x \in Buffers, NEW k \in 1 .. 4, \A j \in 1 .. 4 : x \in at[j] <=> j = k
      PROVE  One(x)
  BY <1>1, <1>2
<1>3. ASSUME NEW x \in Buffers, One(x)
      PROVE  \E k \in 1 .. 4 : \A j \in 1 .. 4 : x \in at[j] <=> j = k
  <2>1. CASE x \in a
    <3>1. \A j \in 1 .. 4 : x \in at[j] <=> j = 1
      BY <1>1, <1>3, <2>1
    <3> QED
      BY <1>1, <3>1
  <2>2. CASE x \in b
    <3>1. \A j \in 1 .. 4 : x \in at[j] <=> j = 2
      BY <1>1, <1>3, <2>2
    <3> QED
      BY <1>1, <3>1
  <2>3. CASE x \in c
    <3>1. \A j \in 1 .. 4 : x \in at[j] <=> j = 3
      BY <1>1, <1>3, <2>3
    <3> QED
      BY <1>1, <3>1
  <2>4. CASE x \in d
    <3>1. \A j \in 1 .. 4 : x \in at[j] <=> j = 4
      BY <1>1, <1>3, <2>4
    <3> QED
      BY <1>1, <3>1
  <2> QED
    BY <1>3, <2>1, <2>2, <2>3, <2>4
<1>4. Four(a, b, c, d) <=> \A x \in Buffers : \E k \in 1 .. 4 : \A j \in 1 .. 4 : x \in at[j] <=> j = k
  BY DEF Four, Placed, at
<1>5. Four(a, b, c, d) <=> \A x \in Buffers : One(x)
  BY <1>2, <1>3, <1>4
<1> QED
  BY <1>5

\* What one place passes on to another.
LEMMA FourMoves ==
  ASSUME NEW a, NEW b, NEW c, NEW d, Four(a, b, c, d), NEW X
  PROVE  /\ X \subseteq a => Four(a \ X, b \cup X, c, d) /\ Four(a \ X, b, c \cup X, d)
         /\ X \subseteq b => Four(a, b \ X, c \cup X, d) /\ Four(a \cup X, b \ X, c, d)
         /\ X \subseteq c => Four(a \cup X, b, c \ X, d) /\ Four(a, b, c \ X, d \cup X)
         /\ X \subseteq d => Four(a \cup X, b, c, d \ X)
<1>1. \A x \in Buffers :
        /\ x \in a \/ x \in b \/ x \in c \/ x \in d
        /\ x \in a => x \notin b /\ x \notin c /\ x \notin d
        /\ x \in b => x \notin c /\ x \notin d
        /\ x \in c => x \notin d
  BY FourPlaces
<1>2. ASSUME X \subseteq a PROVE Four(a \ X, b \cup X, c, d)
  BY <1>1, <1>2, FourPlaces
<1>3. ASSUME X \subseteq a PROVE Four(a \ X, b, c \cup X, d)
  BY <1>1, <1>3, FourPlaces
<1>4. ASSUME X \subseteq b PROVE Four(a, b \ X, c \cup X, d)
  BY <1>1, <1>4, FourPlaces
<1>5. ASSUME X \subseteq b PROVE Four(a \cup X, b \ X, c, d)
  BY <1>1, <1>5, FourPlaces
<1>6. ASSUME X \subseteq c PROVE Four(a \cup X, b, c \ X, d)
  BY <1>1, <1>6, FourPlaces
<1>7. ASSUME X \subseteq c PROVE Four(a, b, c \ X, d \cup X)
  BY <1>1, <1>7, FourPlaces
<1>8. ASSUME X \subseteq d PROVE Four(a \cup X, b, c, d \ X)
  BY <1>1, <1>8, FourPlaces
<1> QED
  BY <1>2, <1>3, <1>4, <1>5, <1>6, <1>7, <1>8

\* Fragments for which the driver takes MDLs that it holds, or memory from a pool.
LEMMA Fills ==
  ASSUME NEW f, NEW pool, NEW held, NEW s \in Seq(Memory), NEW t \in Seq(Memory), NEW c,
         OneBuffer(f, pool, held, s, c), Sole(t)
  PROVE  /\ Held(t) \subseteq held => OneBuffer(f, pool, held \ Held(t), s \o t, c)
         /\ Held(t) \subseteq pool => OneBuffer(f, pool \ Held(t), held, s \o t, c)
<1> DEFINE X == Held(t)
           d == InChains(c, f)
<1>1. Four(pool, held, Held(s), d) /\ Sole(s) /\ Unshared(c, f)
  BY DEF OneBuffer
<1>2. X \subseteq Buffers
  BY NobodyIsNone
<1>3. ASSUME X \subseteq held \/ X \subseteq pool PROVE Held(s) \cap X = {}
  BY <1>1, <1>2, <1>3, FourPlaces
<1>4. /\ Held(s \o t) = Held(s) \cup X
      /\ Sole(s) /\ Sole(t) /\ Held(s) \cap X = {} => Sole(s \o t)
  BY Concatenated
<1> HIDE DEF X, d
<1>5. /\ X \subseteq held => Four(pool, held \ X, Held(s) \cup X, d)
      /\ X \subseteq pool => Four(pool \ X, held, Held(s) \cup X, d)
  BY <1>1, FourMoves
<1> QED
  BY <1>1, <1>3, <1>4, <1>5 DEF OneBuffer, X, d

\* All fragments that are left go to the pool.
LEMMA Reclaims ==
  ASSUME NEW f, NEW pool, NEW held, NEW s \in Seq(Memory), NEW c, OneBuffer(f, pool, held, s, c)
  PROVE  OneBuffer(f, pool \cup Held(s), held, <<>>, c)
<1> DEFINE X == Held(s)
           d == InChains(c, f)
<1>1. Four(pool, held, X, d) /\ Unshared(c, f)
  BY DEF OneBuffer
<1> HIDE DEF X, d
<1>2. Four(pool \cup X, held, X \ X, d)
  BY <1>1, FourMoves
<1>3. X \ X = Held(<<>>) /\ Sole(<<>>)
  BY EmptyList
<1> QED
  BY <1>1, <1>2, <1>3 DEF OneBuffer, X, d

\* What a pool gives to the driver.
LEMMA Offered ==
  ASSUME NEW f, NEW pool, NEW held, NEW s, NEW c, OneBuffer(f, pool, held, s, c),
         NEW X, X \subseteq pool
  PROVE  OneBuffer(f, pool \ X, held \cup X, s, c)
<1> DEFINE d == InChains(c, f)
           h == Held(s)
<1>1. Four(pool, held, h, d)
  BY DEF OneBuffer
<1> HIDE DEF d, h
<1>2. Four(pool \ X, held \cup X, h, d)
  BY <1>1, FourMoves
<1> QED
  BY <1>2 DEF OneBuffer, d, h

\* The NBLs that are back give back all that they have.
LEMMA Unchains ==
  ASSUME NEW f, NEW pool, NEW held, NEW s, NEW c, OneBuffer(f, pool, held, s, c),
         NEW back \in SUBSET Nbls, NEW after,
         \A n \in Nbls : after[n] = IF n \in back THEN {} ELSE c[n]
  PROVE  OneBuffer(f, pool \cup {part[f] : part \in UNION {c[n] : n \in back}}, held, s, after)
<1> DEFINE X == {part[f] : part \in UNION {c[n] : n \in back}}
           Y == X \cap Buffers
           d == InChains(c, f)
           e == InChains(after, f)
           h == Held(s)
<1>1. Four(pool, held, h, d) /\ Sole(s) /\ Unshared(c, f)
  BY DEF OneBuffer
<1>2. ASSUME NEW b \in Buffers PROVE b \in e <=> b \in d /\ b \notin X
  <2>1. b \in e => b \in d
    BY DEF InChains
  <2>2. ASSUME b \in e, b \in X PROVE FALSE
    <3>7. PICK n \in Nbls : \E p \in after[n] : p[f] = b
      BY <2>2 DEF InChains
    <3>1. PICK p \in after[n] : p[f] = b
      BY <3>7
    <3>8. PICK m \in back : \E q \in c[m] : q[f] = b
      BY <2>2
    <3>2. PICK q \in c[m] : q[f] = b
      BY <3>8
    <3>3. n \notin back /\ p \in c[n]
      BY <3>1
    <3> QED
      BY <1>1, <3>1, <3>2, <3>3 DEF Unshared
  <2>3. ASSUME b \in d, b \notin X PROVE b \in e
    <3>7. PICK n \in Nbls : \E p \in c[n] : p[f] = b
      BY <2>3 DEF InChains
    <3>1. PICK p \in c[n] : p[f] = b
      BY <3>7
    <3>2. n \notin back
      BY <2>3, <3>1
    <3>3. p \in after[n]
      BY <3>1, <3>2
    <3> QED
      BY <3>1, <3>3 DEF InChains
  <2> QED
    BY <2>1, <2>2, <2>3
<1>3. Unshared(after, f)
  BY <1>1 DEF Unshared
<1>4. ASSUME NEW b \in Buffers PROVE b \in X => b \in d
  <2>1. ASSUME b \in X PROVE b \in d
    <3>7. PICK m \in back : \E q \in c[m] : q[f] = b
      BY <2>1
    <3>1. PICK q \in c[m] : q[f] = b
      BY <3>7
    <3> QED
      BY <3>1 DEF InChains
  <2> QED
    BY <2>1
<1> HIDE DEF X, d, e, h
<1>5. Four(pool \cup X, held, h, e)
  BY <1>1, <1>2, <1>4, FourPlaces
<1> QED
  BY <1>1, <1>3, <1>5 DEF OneBuffer, X, e, h

\* An NBL takes what the fragments of its packet have; those in front go to the pool.
LEMMA Chains ==
  ASSUME NEW f, NEW pool, NEW held, NEW s, NEW c, OneBuffer(f, pool, held, s, c),
         NEW nbl \in Nbls, c[nbl] = {}, NEW after, NEW parts, after[nbl] = parts,
         \A n \in Nbls : n # nbl => after[n] = c[n],
         NEW skipped, NEW taken, NEW rest, {part[f] : part \in parts} = taken,
         Held(s) = skipped \cup taken \cup Held(rest), Sole(rest),
         skipped \cap taken = {}, skipped \cap Held(rest) = {}, taken \cap Held(rest) = {},
         taken \subseteq Buffers
  PROVE  OneBuffer(f, pool \cup skipped, held, rest, after)
<1> DEFINE d == InChains(c, f)
           e == InChains(after, f)
           h == Held(s)
           r == Held(rest)
<1>1. Four(pool, held, h, d) /\ Unshared(c, f)
  BY DEF OneBuffer
<1>2. ASSUME NEW b \in Buffers PROVE b \in e <=> b \in d \/ b \in taken
  <2>1. ASSUME b \in e PROVE b \in d \/ b \in taken
    <3>7. PICK n \in Nbls : \E p \in after[n] : p[f] = b
      BY <2>1 DEF InChains
    <3>1. PICK p \in after[n] : p[f] = b
      BY <3>7
    <3> QED
      BY <3>1 DEF InChains
  <2>2. ASSUME b \in d PROVE b \in e
    <3>7. PICK n \in Nbls : \E p \in c[n] : p[f] = b
      BY <2>2 DEF InChains
    <3>1. PICK p \in c[n] : p[f] = b
      BY <3>7
    <3>2. p \in after[n]
      BY <3>1
    <3> QED
      BY <3>1, <3>2 DEF InChains
  <2>3. ASSUME b \in taken PROVE b \in e
    <3>1. PICK p \in parts : p[f] = b
      BY <2>3
    <3> QED
      BY <3>1 DEF InChains
  <2> QED
    BY <2>1, <2>2, <2>3
<1>3. Unshared(after, f)
  <2>1. SUFFICES ASSUME NEW n \in Nbls, NEW m \in Nbls, NEW p \in after[n], NEW q \in after[m],
                        p[f] = q[f], n # m
                 PROVE  FALSE
    BY DEF Unshared
  <2>2. ASSUME NEW k \in Nbls, NEW x \in c[k], x[f] \in taken PROVE x[f] \notin Buffers
    <3>1. x[f] \in Buffers => x[f] \in d
      BY DEF InChains
    <3>2. x[f] \in h
      BY <2>2
    <3> HIDE DEF d, h
    <3> QED
      BY <3>1, <3>2, <1>1, FourPlaces
  <2>3. CASE n = nbl
    BY <2>1, <2>2, <2>3
  <2>4. CASE m = nbl
    BY <2>1, <2>2, <2>4
  <2>5. CASE n # nbl /\ m # nbl
    BY <2>1, <2>5, <1>1 DEF Unshared
  <2> QED
    BY <2>3, <2>4, <2>5
<1> HIDE DEF d, e, h, r
<1>4. Four(pool \cup skipped, held, r, e)
  BY <1>1, <1>2, FourPlaces DEF h, r
<1> QED
  BY <1>3, <1>4 DEF OneBuffer, e, r

-----------------------------------------------------------------------------
(* Each MDL, and each piece of memory of the driver, stays in one place.    *)
LEMMA MdlInit == ASSUME Init PROVE MdlInv /\ DriverMemoryInv
<1>1. /\ mdlPool = Buffers /\ offered = <<>> /\ filled = <<>>
      /\ mode = "DRIVER" => driverMemory = Buffers
      /\ \A n \in Nbls : chain[n] = {}
  BY DEF Init
<1>2. \A f : Column(filled, f) = <<>> /\ InChains(chain, f) = {} /\ Unshared(chain, f)
  BY <1>1, EmptyList DEF InChains, Unshared
<1>3. Sole(<<>>) /\ Held(<<>>) = {}
  BY EmptyList
<1>4. Four(Buffers, {}, {}, {})
  BY FourPlaces
<1> QED
  BY <1>1, <1>2, <1>3, <1>4 DEF MdlInv, DriverMemoryInv, OneBuffer

\* What the fragments have is what the pools take back.
LEMMA AllTheyHave ==
  ASSUME TypeInv
  PROVE  /\ mode # "ALLOCATE" => ReclaimSkippedFragments(filled) = Held(Column(filled, "mdl"))
         /\ {filled[i].memory : i \in {i \in DOMAIN filled : ~filled[i].skipped}}
              = Held(Column(filled, "memory"))
         /\ (\A x \in 1 .. Len(filled) : filled[x].skipped) => Held(Column(filled, "memory")) = {}
<1>1. DOMAIN filled = 1 .. Len(filled) /\ \A i \in DOMAIN filled : filled[i] \in Fragments(mode)
  BY LenProperties, ElementOfSeq DEF TypeInv
<1>2. \A i \in DOMAIN filled : /\ filled[i].skipped => filled[i].memory = None
                               /\ filled[i].memory = None => filled[i].skipped
                               /\ mode # "ALLOCATE" => filled[i].mdl # None
  BY <1>1 DEF Fragments
<1>3. /\ Held(Column(filled, "mdl")) = {filled[i].mdl : i \in DOMAIN filled} \ {None}
      /\ Held(Column(filled, "memory")) = {filled[i].memory : i \in DOMAIN filled} \ {None}
  BY DEF Held, ToSet, Column
<1> QED
  BY <1>1, <1>2, <1>3 DEF ReclaimSkippedFragments

LEMMA MdlCancel ==
  ASSUME TypeInv, MdlInv, DriverMemoryInv, Cancel
  PROVE  MdlInv' /\ DriverMemoryInv'
<1> DEFINE t == [i \in DOMAIN offered |-> SkippedFragment(offered[i])]
           c == Column(filled, "mdl")
           m == Column(filled, "memory")
           u == Column(t, "memory")
<1>1. /\ UNCHANGED <<mode, mdlPool, driverMemory, chain>>
      /\ \/ filled' = filled \o t /\ offered' = <<>>
         \/ UNCHANGED <<offered, filled>>
  BY DEF Cancel, EvtCancel, fragmentRing, driver
<1>2. /\ t \in Seq(FragmentType) /\ filled \in Seq(FragmentType) /\ Column(t, "mdl") = offered
      /\ Held(u) = {} /\ Sole(u)
  BY GivenBack, SubTypes, ColumnTypes
<1> HIDE DEF t
<1>3. /\ c \in Seq(Memory) /\ m \in Seq(Memory) /\ offered \in Seq(Memory) /\ u \in Seq(Memory)
  BY <1>2, ColumnTypes, Fields, ColumnIs
<1>4. Column(filled \o t, "mdl") = c \o offered /\ Column(filled \o t, "memory") = m \o u
  <2>0. t \in Seq(FragmentType) /\ filled \in Seq(FragmentType)
    BY <1>2
  <2>1. Column(filled \o t, "mdl") = Column(filled, "mdl") \o Column(t, "mdl")
    BY <2>0, Fields, ColumnOfConcat
  <2>2. Column(filled \o t, "memory") = Column(filled, "memory") \o Column(t, "memory")
    BY <2>0, Fields, ColumnOfConcat
  <2> QED
    BY <2>1, <2>2, <1>2
<1>5. CASE UNCHANGED <<offered, filled>>
  BY <1>1, <1>5 DEF MdlInv, DriverMemoryInv
<1>6. CASE filled' = filled \o t /\ offered' = <<>>
  <2>1. Column(filled', "mdl") = c \o offered /\ Column(filled', "memory") = m \o u
    BY <1>4, <1>6
  <2> HIDE DEF c, m, u
  <2>2. ASSUME mode # "ALLOCATE"
        PROVE  Sole(offered') /\ OneBuffer("mdl", mdlPool, Held(offered'), c \o offered, chain)
    <3>1. Sole(offered) /\ OneBuffer("mdl", mdlPool, Held(offered), c, chain)
      BY <2>2 DEF MdlInv, c
    <3>2. Held(offered) \subseteq Held(offered)
      OBVIOUS
    <3>3. OneBuffer("mdl", mdlPool, Held(offered) \ Held(offered), c \o offered, chain)
      BY <3>1, <3>2, <1>3, Fills
    <3>4. Held(offered) \ Held(offered) = Held(offered') /\ Sole(offered')
      BY <1>6, EmptyList
    <3> QED
      BY <3>3, <3>4
  <2>3. ASSUME mode = "DRIVER" PROVE OneBuffer("memory", driverMemory, {}, m \o u, chain)
    <3>1. OneBuffer("memory", driverMemory, {}, m, chain)
      BY <2>3 DEF DriverMemoryInv, m
    <3>2. Held(u) \subseteq {} /\ Sole(u)
      BY <1>2 DEF u
    <3>3. OneBuffer("memory", driverMemory, {} \ Held(u), m \o u, chain)
      BY <3>1, <3>2, <1>3, Fills
    <3>4. {} \ Held(u) = {}
      OBVIOUS
    <3> QED
      BY <3>3, <3>4
  <2> QED
    BY <1>1, <2>1, <2>2, <2>3 DEF MdlInv, DriverMemoryInv
<1> QED
  BY <1>1, <1>5, <1>6

LEMMA MdlReturn ==
  ASSUME TypeInv, MdlInv, DriverMemoryInv, EcReturnBuffers
  PROVE  MdlInv' /\ DriverMemoryInv'
<1> DEFINE back == returned \cup discarded
           c == Column(filled, "mdl")
           m == Column(filled, "memory")
<1>1. /\ UNCHANGED <<mode, offered, filled>>
      /\ chain' = [n \in Nbls |-> IF n \in back THEN {} ELSE chain[n]]
      /\ mode # "ALLOCATE" =>
           mdlPool' = mdlPool \cup {part.mdl : part \in UNION {chain[n] : n \in back}}
      /\ mode = "DRIVER" =>
           driverMemory' = driverMemory \cup {part.memory : part \in UNION {chain[n] : n \in back}}
  BY DEF EcReturnBuffers, FreeReceivedDataBuffer, fragmentRing
<1>2. back \in SUBSET Nbls /\ \A n \in Nbls : chain'[n] = IF n \in back THEN {} ELSE chain[n]
  BY <1>1 DEF TypeInv
<1> HIDE DEF back, c, m
<1>3. ASSUME mode # "ALLOCATE" PROVE OneBuffer("mdl", mdlPool', Held(offered), c, chain')
  <2>1. OneBuffer("mdl", mdlPool, Held(offered), c, chain)
    BY <1>3 DEF MdlInv, c
  <2>2. OneBuffer("mdl", mdlPool \cup {part["mdl"] : part \in UNION {chain[n] : n \in back}},
                  Held(offered), c, chain')
    BY <2>1, <1>2, Unchains
  <2> QED
    BY <2>2, <1>1, <1>3
<1>4. ASSUME mode = "DRIVER" PROVE OneBuffer("memory", driverMemory', {}, m, chain')
  <2> DEFINE nothing == {}
  <2>1. OneBuffer("memory", driverMemory, nothing, m, chain)
    BY <1>4 DEF DriverMemoryInv, m
  <2> HIDE DEF nothing
  <2>2. OneBuffer("memory", driverMemory \cup {part["memory"] : part \in UNION {chain[n] : n \in back}},
                  nothing, m, chain')
    BY <2>1, <1>2, Unchains
  <2> QED
    BY <2>2, <1>1, <1>4 DEF nothing
<1> QED
  BY <1>1, <1>3, <1>4 DEF MdlInv, DriverMemoryInv, c, m

LEMMA MdlPrepare ==
  ASSUME TypeInv, MdlInv, DriverMemoryInv, EcPrepareBuffers
  PROVE  MdlInv' /\ DriverMemoryInv'
<1> DEFINE mdls == Popped(mdlPool, SmallerOf(Room(FragmentSlots, offered, filled),
                                             Cardinality(mdlPool)))
<1>1. mdls \in Seq(Buffers) /\ Sole(mdls) /\ Held(mdls) \subseteq mdlPool /\ ToSet(mdls) = Held(mdls)
  BY FromThePools
<1>2. /\ UNCHANGED <<mode, filled, chain, driverMemory>>
      /\ mode # "ALLOCATE" => offered' = offered \o mdls /\ mdlPool' = mdlPool \ ToSet(mdls)
  BY Zenon DEF EcPrepareBuffers, driver
<1> HIDE DEF mdls
<1>3. ASSUME mode # "ALLOCATE"
      PROVE  Sole(offered') /\ OneBuffer("mdl", mdlPool', Held(offered'), Column(filled, "mdl"), chain)
  <2>1. Sole(offered) /\ OneBuffer("mdl", mdlPool, Held(offered), Column(filled, "mdl"), chain)
    BY <1>3 DEF MdlInv
  <2>2. OneBuffer("mdl", mdlPool \ Held(mdls), Held(offered) \cup Held(mdls), Column(filled, "mdl"), chain)
    BY <2>1, <1>1, Offered
  <2>3. offered \in Seq(Buffers)
    BY <1>3 DEF TypeInv, Offers
  <2>4. Held(offered) \cap Held(mdls) = {}
    <3>1. Held(offered) \subseteq Buffers
      BY <2>3, NobodyIsNone
    <3>2. Four(mdlPool, Held(offered), Held(Column(filled, "mdl")), InChains(chain, "mdl"))
      BY <2>1 DEF OneBuffer
    <3>3. Held(offered) \cap mdlPool = {}
      BY <3>1, <3>2, FourPlaces
    <3> QED
      BY <3>3, <1>1
  <2>5. Held(offered \o mdls) = Held(offered) \cup Held(mdls) /\ Sole(offered \o mdls)
    BY <2>1, <2>3, <2>4, <1>1, Concatenated
  <2> QED
    BY <2>2, <2>5, <1>1, <1>2, <1>3
<1> QED
  BY <1>2, <1>3 DEF MdlInv, DriverMemoryInv

LEMMA MdlReceive ==
  ASSUME TypeInv, MdlInv, DriverMemoryInv, DriverReceives
  PROVE  MdlInv' /\ DriverMemoryInv'
<1>1. PICK count \in 1 .. SmallerOf(MaxFragments, Len(offered)) :
        /\ TakesMemory(count)
        /\ filled' = filled \o Attached(count)
        /\ offered' = SubSeq(offered, count + 1, Len(offered))
  BY DEF DriverReceives
<1> DEFINE t == Attached(count)
           a == SubSeq(offered, 1, count)
           b == SubSeq(offered, count + 1, Len(offered))
           taken == Popped(driverMemory, count)
           c == Column(filled, "mdl")
           m == Column(filled, "memory")
<1>2. /\ mode = "DRIVER" => /\ count <= Cardinality(driverMemory)
                            /\ driverMemory' = driverMemory \ ToSet(taken)
      /\ mode = "ALLOCATE" => count <= Len(bufferRing)
      /\ UNCHANGED <<mode, mdlPool, chain>>
  BY <1>1, Zenon DEF TakesMemory, DriverReceives, TypeInv
<1>3. /\ t \in Seq(FragmentType) /\ filled \in Seq(FragmentType) /\ count \in 0 .. Len(offered)
      /\ mode # "ALLOCATE" => Column(t, "mdl") = a
      /\ mode = "DRIVER" => Column(t, "memory") = taken
  BY <1>1, <1>2, WithMemory, SubTypes, ColumnTypes
<1> HIDE DEF t, taken
<1>4. /\ Column(filled', "mdl") = c \o Column(t, "mdl")
      /\ Column(filled', "memory") = m \o Column(t, "memory")
  <2>1. Column(filled \o t, "mdl") = Column(filled, "mdl") \o Column(t, "mdl")
    BY <1>3, Fields, ColumnOfConcat
  <2>2. Column(filled \o t, "memory") = Column(filled, "memory") \o Column(t, "memory")
    BY <1>3, Fields, ColumnOfConcat
  <2> QED
    BY <2>1, <2>2, <1>1 DEF t
<1>5. c \in Seq(Memory) /\ m \in Seq(Memory)
  BY ColumnTypes
<1> HIDE DEF c, m
<1>6. ASSUME mode # "ALLOCATE"
      PROVE  Sole(offered') /\ OneBuffer("mdl", mdlPool, Held(offered'), c \o a, chain)
  <2>1. Sole(offered) /\ OneBuffer("mdl", mdlPool, Held(offered), c, chain)
    BY <1>6 DEF MdlInv, c
  <2>2. offered \in Seq(Memory)
    BY ColumnTypes
  <2>3. /\ a \in Seq(Memory) /\ Held(offered) = Held(a) \cup Held(b) /\ Sole(a) /\ Sole(b)
        /\ Held(a) \cap Held(b) = {}
    BY <2>1, <2>2, <1>3, Parted
  <2> HIDE DEF a, b
  <2>4. OneBuffer("mdl", mdlPool, Held(offered) \ Held(a), c \o a, chain)
    <3>1. Held(a) \subseteq Held(offered)
      BY <2>3
    <3> QED
      BY <3>1, <2>1, <2>3, <1>5, Fills
  <2>5. Held(offered) \ Held(a) = Held(b) /\ offered' = b
    BY <2>3, <1>1 DEF b
  <2> QED
    BY <2>3, <2>4, <2>5
<1>7. ASSUME mode = "DRIVER" PROVE OneBuffer("memory", driverMemory', {}, m \o taken, chain)
  <2>1. OneBuffer("memory", driverMemory, {}, m, chain)
    BY <1>7 DEF DriverMemoryInv, m
  <2>2. /\ taken \in Seq(driverMemory) /\ Sole(taken) /\ Held(taken) \subseteq driverMemory
        /\ ToSet(taken) = Held(taken)
    <3>1. count \in Int /\ count <= Cardinality(driverMemory)
      BY <1>2, <1>7
    <3> QED
      BY <3>1, ColumnTypes, PoppedFromPool DEF taken
  <2>3. taken \in Seq(Memory)
    <3>1. driverMemory \subseteq Memory
      BY DEF TypeInv, Memory
    <3> QED
      BY <3>1, <2>2, SeqDef
  <2>4. OneBuffer("memory", driverMemory \ Held(taken), {}, m \o taken, chain)
    BY <2>1, <2>2, <2>3, <1>5, Fills
  <2> QED
    BY <2>2, <2>4, <1>2, <1>7
<1> QED
  BY <1>2, <1>3, <1>4, <1>6, <1>7 DEF MdlInv, DriverMemoryInv

LEMMA MdlSkips ==
  ASSUME TypeInv, MdlInv, DriverMemoryInv, DriverSkips
  PROVE  MdlInv' /\ DriverMemoryInv'
<1> DEFINE e == Head(offered)
           x == SkippedFragment(e)
           one == <<e>>
           none == <<None>>
           c == Column(filled, "mdl")
           m == Column(filled, "memory")
<1>1. /\ offered # <<>> /\ mode # "ALLOCATE" /\ filled' = Append(filled, x)
      /\ offered' = Tail(offered) /\ UNCHANGED <<mode, mdlPool, chain, driverMemory>>
  BY DEF DriverSkips, driver
<1>2. offered \in Seq(Buffers) /\ Sole(offered)
  BY <1>1 DEF TypeInv, Offers, MdlInv
<1>3. /\ Held(offered) = ({e} \ {None}) \cup Held(Tail(offered)) /\ e \in Buffers
      /\ Sole(Tail(offered)) /\ e \notin Held(Tail(offered))
  BY <1>1, <1>2, Shortened
<1> HIDE DEF e
<1>4. x \in FragmentType /\ x["mdl"] = e /\ x["memory"] = None
  BY <1>3 DEF SkippedFragment, FragmentType, Memory
<1> HIDE DEF x
<1>5. c \in Seq(Memory) /\ m \in Seq(Memory) /\ filled \in Seq(FragmentType)
  BY ColumnTypes
<1>6. Column(filled', "mdl") = Append(c, e) /\ Column(filled', "memory") = Append(m, None)
  <2>1. Column(Append(filled, x), "mdl") = Append(Column(filled, "mdl"), x["mdl"])
    BY <1>4, <1>5, Fields, ColumnsOfMore
  <2>2. Column(Append(filled, x), "memory") = Append(Column(filled, "memory"), x["memory"])
    BY <1>4, <1>5, Fields, ColumnsOfMore
  <2> QED
    BY <2>1, <2>2, <1>1, <1>4
<1>7. /\ one \in Seq(Memory) /\ none \in Seq(Memory) /\ Append(c, e) = c \o one
      /\ Append(m, None) = m \o none
  <2>1. e \in Memory /\ None \in Memory
    BY <1>3 DEF Memory
  <2> HIDE DEF c, m
  <2> QED
    BY <2>1, <1>5, AppendIsConcat
<1>8. Sole(one) /\ Held(one) = {e} \ {None} /\ Sole(none) /\ Held(none) = {}
  <2>1. Held(none) = {None} \ {None} /\ Sole(none)
    BY OneElement
  <2> QED
    BY <2>1, OneElement
<1> HIDE DEF c, m, one, none
<1>9. Sole(offered') /\ OneBuffer("mdl", mdlPool, Held(offered'), c \o one, chain)
  <2>1. OneBuffer("mdl", mdlPool, Held(offered), c, chain)
    BY <1>1 DEF MdlInv, c
  <2>2. Held(one) \subseteq Held(offered)
    BY <1>3, <1>8
  <2>3. OneBuffer("mdl", mdlPool, Held(offered) \ Held(one), c \o one, chain)
    BY <2>1, <2>2, <1>5, <1>7, <1>8, Fills
  <2>4. Held(offered) \ Held(one) = Held(offered')
    BY <1>1, <1>3, <1>8
  <2> QED
    BY <2>3, <2>4, <1>1, <1>3
<1>10. ASSUME mode = "DRIVER" PROVE OneBuffer("memory", driverMemory, {}, m \o none, chain)
  <2>1. OneBuffer("memory", driverMemory, {}, m, chain)
    BY <1>10 DEF DriverMemoryInv, m
  <2>2. Held(none) \subseteq {}
    BY <1>8
  <2>3. OneBuffer("memory", driverMemory, {} \ Held(none), m \o none, chain)
    BY <2>1, <2>2, <1>5, <1>7, <1>8, Fills
  <2>4. {} \ Held(none) = {}
    OBVIOUS
  <2> QED
    BY <2>3, <2>4
<1> QED
  BY <1>1, <1>6, <1>7, <1>9, <1>10 DEF MdlInv, DriverMemoryInv

\* The NBL of the next packet has no memory yet.
LEMMA NextIsFree ==
  ASSUME TypeInv, NblInv, ChainInv, drained # <<>>
  PROVE  Head(drained).nbl \in Nbls /\ chain[Head(drained).nbl] = {}
<1> DEFINE c == Column(drained, "nbl")
           nbl == Head(drained).nbl
<1>1. drained \in Seq(Packet) /\ c \in Seq(Nbls)
  BY ColumnTypes DEF TypeInv
<1>2. Head(c) = nbl /\ c # <<>>
  <2>1. Head(Column(drained, "nbl")) = Head(drained)["nbl"] /\ Column(drained, "nbl") # <<>>
    BY <1>1, Fields, ColumnsOfLess
  <2> QED
    BY <2>1
<1> HIDE DEF c, nbl
<1>3. Head(c) \in Nbls /\ Held(c) = ({Head(c)} \ {None}) \cup Held(Tail(c))
  BY <1>1, <1>2, Shortened
<1>4. nbl \in Nbls /\ nbl \in Held(c)
  BY <1>2, <1>3, NullIsNobody
<1>5. /\ Placed(NblAt, NblWhere, Nbls) /\ "drained" \in NblWhere /\ "batch" \in NblWhere
      /\ "ndis" \in NblWhere /\ "returned" \in NblWhere /\ "discarded" \in NblWhere
  BY DEF NblInv, NblWhere
<1>6. nbl \in NblAt["drained"]
  BY <1>4, NblPlaceOf DEF c
<1>7. /\ nbl \notin NblAt["batch"] /\ nbl \notin NblAt["ndis"] /\ nbl \notin NblAt["returned"]
      /\ nbl \notin NblAt["discarded"]
  BY <1>4, <1>5, <1>6 DEF Placed
<1>8. ToSet(batch) = Held(batch)
  BY NobodyIsNone DEF TypeInv
<1>9. nbl \notin Carriers
  BY <1>7, <1>8, NblPlaceOf DEF Carriers
<1> QED
  BY <1>4, <1>9 DEF ChainInv, nbl

LEMMA MdlTransfer ==
  ASSUME TypeInv, NblInv, ChainInv, LayoutInv, MdlInv, DriverMemoryInv, TransferDataBuffer
  PROVE  MdlInv' /\ DriverMemoryInv'
<1> DEFINE packet  == Head(drained)
           first   == FirstUsed(filled)
           next    == first + packet.count
           skipped == SubSeq(filled, 1, first - 1)
           taken   == SubSeq(filled, first, next - 1)
           rest    == SubSeq(filled, next, Len(filled))
           parts   == {[mdl |-> filled[i].mdl, memory |-> filled[i].memory] : i \in first .. next - 1}
           nbl     == packet.nbl
<1>1. /\ drained # <<>> /\ UNCHANGED <<mode, offered, driverMemory>>
      /\ packet.ignore => UNCHANGED <<filled, mdlPool, chain>>
      /\ ~packet.ignore => /\ filled' = rest
                           /\ mdlPool' = mdlPool \cup ReclaimSkippedFragments(skipped)
                           /\ chain' = [chain EXCEPT ![nbl] = parts]
  BY Zenon DEF TransferDataBuffer, FirstUsed, driver
<1>2. CASE packet.ignore
  BY <1>1, <1>2 DEF MdlInv, DriverMemoryInv
<1>3. CASE ~packet.ignore
  <2>1. /\ \A f \in {"mdl", "memory"} :
             /\ {part[f] : part \in parts} = Held(Column(taken, f))
             /\ Held(Column(filled, f))
                  = Held(Column(skipped, f)) \cup Held(Column(taken, f))
                    \cup Held(Column(rest, f))
             /\ Sole(Column(filled, f)) =>
                  /\ Sole(Column(rest, f))
                  /\ Held(Column(skipped, f)) \cap Held(Column(taken, f)) = {}
                  /\ Held(Column(skipped, f)) \cap Held(Column(rest, f)) = {}
                  /\ Held(Column(taken, f)) \cap Held(Column(rest, f)) = {}
        /\ Held(Column(skipped, "memory")) = {}
        /\ mode # "ALLOCATE" =>
             {skipped[i].mdl : i \in DOMAIN skipped} = Held(Column(skipped, "mdl"))
        /\ parts \in SUBSET Parts(mode)
    BY <1>1, <1>3, Transferred
  <2>2. nbl \in Nbls
    BY <1>1, NextIsFree
  <2>3. chain[nbl] = {}
    BY <1>1, NextIsFree
  <2>4. chain'[nbl] = parts /\ \A n \in Nbls : n # nbl => chain'[n] = chain[n]
    BY <1>1, <1>3, <2>2 DEF TypeInv
  <2>5. /\ filled' = rest /\ UNCHANGED <<mode, offered, driverMemory>>
        /\ mode # "ALLOCATE" => mdlPool' = mdlPool \cup Held(Column(skipped, "mdl"))
    BY <1>1, <1>3, <2>1 DEF ReclaimSkippedFragments
  <2>6. \A f \in {"mdl", "memory"} : {part[f] : part \in parts} \subseteq Buffers
    BY <2>1 DEF Parts
  <2> HIDE DEF packet, first, next, skipped, taken, rest, parts, nbl
  <2>7. ASSUME NEW f \in {"mdl", "memory"}, NEW pool, NEW held,
               OneBuffer(f, pool, held, Column(filled, f), chain)
        PROVE  OneBuffer(f, pool \cup Held(Column(skipped, f)), held, Column(rest, f), chain')
    <3> DEFINE s == Column(filled, f)
               sk == Held(Column(skipped, f))
               tk == Held(Column(taken, f))
               rs == Column(rest, f)
    <3>1. OneBuffer(f, pool, held, s, chain)
      BY <2>7
    <3>2. Sole(s)
      BY <2>7 DEF OneBuffer
    <3>3. {part[f] : part \in parts} = tk /\ Held(s) = sk \cup tk \cup Held(rs) /\ Sole(rs)
      BY <2>1, <3>2
    <3>4. sk \cap tk = {} /\ sk \cap Held(rs) = {} /\ tk \cap Held(rs) = {}
      BY <2>1, <3>2
    <3>5. tk \subseteq Buffers
      BY <2>6, <3>3
    <3> HIDE DEF s, sk, tk, rs
    <3>6. OneBuffer(f, pool \cup sk, held, rs, chain')
      BY <2>2, <2>3, <2>4, <3>1, <3>3, <3>4, <3>5, Chains
    <3> QED
      BY <3>6 DEF sk, rs
  <2>8. ASSUME mode # "ALLOCATE"
        PROVE  Sole(offered) /\ OneBuffer("mdl", mdlPool', Held(offered), Column(rest, "mdl"), chain')
    <3>1. Sole(offered) /\ OneBuffer("mdl", mdlPool, Held(offered), Column(filled, "mdl"), chain)
      BY <2>8 DEF MdlInv
    <3>2. OneBuffer("mdl", mdlPool \cup Held(Column(skipped, "mdl")), Held(offered), Column(rest, "mdl"), chain')
      BY <3>1, <2>7
    <3> QED
      BY <3>1, <3>2, <2>5, <2>8
  <2>9. ASSUME mode = "DRIVER"
        PROVE  OneBuffer("memory", driverMemory, {}, Column(rest, "memory"), chain')
    <3>1. OneBuffer("memory", driverMemory, {}, Column(filled, "memory"), chain)
      BY <2>9 DEF DriverMemoryInv
    <3>2. OneBuffer("memory", driverMemory \cup Held(Column(skipped, "memory")), {}, Column(rest, "memory"), chain')
      BY <3>1, <2>7
    <3>3. driverMemory \cup Held(Column(skipped, "memory")) = driverMemory
      BY <2>1
    <3> QED
      BY <3>2, <3>3
  <2> QED
    BY <2>5, <2>8, <2>9 DEF MdlInv, DriverMemoryInv
<1> QED
  BY <1>2, <1>3

\* What is left of the fragments when no packet uses them.
LEMMA MdlReclaims ==
  ASSUME TypeInv, MdlInv, DriverMemoryInv, filled' = <<>>, UNCHANGED <<mode, offered, chain>>,
         mode # "ALLOCATE" => mdlPool' = mdlPool \cup Held(Column(filled, "mdl")),
         mode = "DRIVER" => driverMemory' = driverMemory \cup Held(Column(filled, "memory"))
  PROVE  MdlInv' /\ DriverMemoryInv'
<1> DEFINE c == Column(filled, "mdl")
           m == Column(filled, "memory")
           nothing == {}
<1>1. c \in Seq(Memory) /\ m \in Seq(Memory)
  BY ColumnTypes
<1>2. Column(filled', "mdl") = <<>> /\ Column(filled', "memory") = <<>>
  BY EmptyList
<1> HIDE DEF c, m, nothing
<1>3. ASSUME mode # "ALLOCATE"
      PROVE  Sole(offered) /\ OneBuffer("mdl", mdlPool', Held(offered), <<>>, chain)
  <2>1. Sole(offered) /\ OneBuffer("mdl", mdlPool, Held(offered), c, chain)
    BY <1>3 DEF MdlInv, c
  <2>2. OneBuffer("mdl", mdlPool \cup Held(c), Held(offered), <<>>, chain)
    BY <2>1, <1>1, Reclaims
  <2> QED
    BY <2>1, <2>2, <1>3 DEF c
<1>4. ASSUME mode = "DRIVER" PROVE OneBuffer("memory", driverMemory', nothing, <<>>, chain)
  <2>1. OneBuffer("memory", driverMemory, nothing, m, chain)
    BY <1>4 DEF DriverMemoryInv, m, nothing
  <2>2. OneBuffer("memory", driverMemory \cup Held(m), nothing, <<>>, chain)
    BY <2>1, <1>1, Reclaims
  <2> QED
    BY <2>2, <1>4 DEF m
<1> QED
  BY <1>2, <1>3, <1>4 DEF MdlInv, DriverMemoryInv, nothing

LEMMA MdlIndicate ==
  ASSUME TypeInv, LayoutInv, MdlInv, DriverMemoryInv, IndicateReceiveNetBufferLists
  PROVE  MdlInv' /\ DriverMemoryInv'
<1>1. CASE drained = <<>>
  <2>1. /\ filled' = <<>> /\ UNCHANGED <<mode, offered, chain, driverMemory>>
        /\ mdlPool' = mdlPool \cup ReclaimSkippedFragments(filled)
    BY <1>1 DEF IndicateReceiveNetBufferLists, driver
  <2>2. Held(Column(filled, "memory")) = {}
    <3>1. \A i \in 1 .. Len(drained) : drained[i].ignore
      BY <1>1
    <3>2. \A x \in 1 .. Len(filled) : filled[x].skipped
      <4>1. drained \in Seq(Packet) /\ filled \in Seq(FragmentType) /\ Laid(drained, filled)
        BY ColumnTypes DEF TypeInv, LayoutInv
      <4> QED
        BY <3>1, <4>1, AllSkipped
    <3> QED
      BY <3>2, AllTheyHave
  <2>3. mode # "ALLOCATE" => mdlPool' = mdlPool \cup Held(Column(filled, "mdl"))
    BY <2>1, AllTheyHave
  <2>4. driverMemory' = driverMemory \cup Held(Column(filled, "memory"))
    BY <2>1, <2>2
  <2> QED
    BY <2>1, <2>3, <2>4, MdlReclaims
<1>2. CASE drained # <<>>
  BY <1>2 DEF IndicateReceiveNetBufferLists, ReclaimSkippedFragments, driver, MdlInv,
     DriverMemoryInv
<1> QED
  BY <1>1, <1>2

LEMMA MdlRecover ==
  ASSUME TypeInv, MdlInv, DriverMemoryInv, EcRecoverBuffers
  PROVE  MdlInv' /\ DriverMemoryInv'
<1>1. /\ filled' = <<>> /\ UNCHANGED <<mode, offered, chain>>
      /\ mdlPool' = mdlPool \cup ReclaimSkippedFragments(filled)
      /\ mode = "DRIVER" =>
           driverMemory' = driverMemory
             \cup {filled[i].memory : i \in {i \in DOMAIN filled : ~filled[i].skipped}}
  BY Zenon DEF EcRecoverBuffers
<1>2. mode # "ALLOCATE" => mdlPool' = mdlPool \cup Held(Column(filled, "mdl"))
  BY <1>1, AllTheyHave
<1>3. mode = "DRIVER" => driverMemory' = driverMemory \cup Held(Column(filled, "memory"))
  BY <1>1, AllTheyHave
<1> QED
  BY <1>1, <1>2, <1>3, MdlReclaims

LEMMA MdlStep ==
  ASSUME TypeInv, NblInv, ChainInv, LayoutInv, LifeInv, MdlInv, DriverMemoryInv, [Next]_vars
  PROVE  MdlInv' /\ DriverMemoryInv'
<1>1. CASE OpenGate \/ CloseGate \/ DeviceNotifies \/ Stop \/ DriverIgnores
             \/ PreAdvancePostDataBuffer \/ PostAdvanceRefCounting
  <2>1. UNCHANGED <<mode, offered, filled, mdlPool, chain, driverMemory>>
    BY <1>1 DEF OpenGate, CloseGate, DeviceNotifies, Stop, DriverIgnores,
       PreAdvancePostDataBuffer, PostAdvanceRefCounting, fragmentRing, driver
  <2> QED
    BY <2>1 DEF MdlInv, DriverMemoryInv
<1>2. CASE Start
  <2>1. UNCHANGED <<mode, offered, filled, mdlPool, chain, driverMemory>>
    BY <1>2 DEF Start, driver, LifeInv
  <2> QED
    BY <2>1 DEF MdlInv, DriverMemoryInv
<1>3. ASSUME NEW unit \in indicated, ReturnNetBufferLists(unit) PROVE MdlInv' /\ DriverMemoryInv'
  <2>1. UNCHANGED <<mode, offered, filled, mdlPool, chain, driverMemory>>
    BY <1>3 DEF ReturnNetBufferLists, fragmentRing, driver
  <2> QED
    BY <2>1 DEF MdlInv, DriverMemoryInv
<1>4. CASE UNCHANGED vars
  <2>1. UNCHANGED <<mode, offered, filled, mdlPool, chain, driverMemory>>
    BY <1>4 DEF vars, fragmentRing, driver
  <2> QED
    BY <2>1 DEF MdlInv, DriverMemoryInv
<1> QED
  BY <1>1, <1>2, <1>3, <1>4, MdlCancel, MdlReturn, MdlPrepare, MdlReceive, MdlSkips, MdlTransfer,
     MdlIndicate, MdlRecover
  DEF Next, DriverAdvances, Poll

-----------------------------------------------------------------------------
(* Each data buffer stays in one place of its pool.                         *)
LEMMA PoolInit == ASSUME Init PROVE PoolInv
<1>1. /\ mode = "ALLOCATE" => free = Buffers
      /\ osOwned = {} /\ bufferRing = <<>> /\ letGo = <<>>
  BY DEF Init
<1>2. Sole(<<>>) /\ Held(<<>>) = {}
  BY EmptyList
<1>3. Four(Buffers, {}, {}, {})
  BY FourPlaces
<1> QED
  BY <1>1, <1>2, <1>3 DEF PoolInv

LEMMA PoolReceive ==
  ASSUME TypeInv, PoolInv, LifeInv, DriverReceives
  PROVE  PoolInv'
<1>1. PICK count \in 1 .. SmallerOf(MaxFragments, Len(offered)) : TakesMemory(count)
  BY DEF DriverReceives
<1>2. UNCHANGED <<mode, pc, life, free, osOwned>> /\ pc = "advance"
  BY DEF DriverReceives, counts
<1>3. CASE UNCHANGED dataRing
  BY <1>2, <1>3 DEF PoolInv, dataRing
<1>4. CASE mode = "ALLOCATE" /\ ~UNCHANGED dataRing
  <2> DEFINE a == SubSeq(bufferRing, 1, count)
             b == SubSeq(bufferRing, count + 1, Len(bufferRing))
  <2>1. count <= Len(bufferRing) /\ letGo' = letGo \o a /\ bufferRing' = b
    BY <1>1, <1>4 DEF TakesMemory
  <2>2. /\ Four(free, Held(bufferRing), Held(letGo), osOwned) /\ Sole(bufferRing) /\ Sole(letGo)
        /\ life \in {"stopped", "opened"} => bufferRing = <<>>
    BY <1>4 DEF PoolInv
  <2>3. bufferRing \in Seq(Buffers) /\ letGo \in Seq(Buffers) /\ count \in 0 .. Len(bufferRing)
    BY <2>1, LenProperties DEF TypeInv
  <2>4. /\ a \in Seq(Buffers) /\ Held(bufferRing) = Held(a) \cup Held(b) /\ Sole(a) /\ Sole(b)
        /\ Held(a) \cap Held(b) = {}
    BY <2>2, <2>3, Parted
  <2> HIDE DEF a, b
  <2>5. Four(free, Held(bufferRing) \ Held(a), Held(letGo) \cup Held(a), osOwned)
    BY <2>2, <2>4, FourMoves
  <2>6. Held(bufferRing) \ Held(a) = Held(b)
    BY <2>4
  <2>7. Held(letGo) \cap Held(a) = {}
    <3>1. Held(letGo) \subseteq Buffers
      BY <2>3, NobodyIsNone
    <3> QED
      BY <3>1, <2>2, <2>4, FourPlaces
  <2>8. Held(letGo \o a) = Held(letGo) \cup Held(a) /\ Sole(letGo \o a)
    BY <2>2, <2>3, <2>4, <2>7, Concatenated
  <2>9. life \notin {"stopped", "opened"}
    BY <1>2 DEF LifeInv
  <2> QED
    BY <1>2, <2>1, <2>4, <2>5, <2>6, <2>8, <2>9 DEF PoolInv
<1>5. CASE mode # "ALLOCATE"
  BY <1>2, <1>5 DEF PoolInv
<1> QED
  BY <1>3, <1>4, <1>5

LEMMA PoolPosts ==
  ASSUME TypeInv, PoolInv, LifeInv, PreAdvancePostDataBuffer
  PROVE  PoolInv'
<1> DEFINE buffers == Popped(free, SmallerOf(Room(BufferSlots, bufferRing, letGo), Cardinality(free)))
<1>1. /\ buffers \in Seq(Buffers) /\ Sole(buffers) /\ Held(buffers) \subseteq free
      /\ ToSet(buffers) = Held(buffers)
  BY FromThePools
<1>2. /\ bufferRing' = bufferRing \o buffers /\ free' = free \ ToSet(buffers) /\ pc = "post"
      /\ UNCHANGED <<mode, life, letGo, osOwned>> /\ pc' = "advance"
  BY Zenon DEF PreAdvancePostDataBuffer
<1> HIDE DEF buffers
<1>3. ASSUME mode = "ALLOCATE" PROVE Sole(bufferRing') /\ Four(free', Held(bufferRing'), Held(letGo), osOwned)
  <2>1. Four(free, Held(bufferRing), Held(letGo), osOwned) /\ Sole(bufferRing)
    BY <1>3 DEF PoolInv
  <2>2. Four(free \ Held(buffers), Held(bufferRing) \cup Held(buffers), Held(letGo), osOwned)
    BY <1>1, <2>1, FourMoves
  <2>3. bufferRing \in Seq(Buffers) /\ Held(bufferRing) \subseteq Buffers
    BY NobodyIsNone DEF TypeInv
  <2>4. Held(bufferRing) \cap Held(buffers) = {}
    BY <1>1, <2>1, <2>3, FourPlaces
  <2>5. Held(bufferRing \o buffers) = Held(bufferRing) \cup Held(buffers) /\ Sole(bufferRing \o buffers)
    BY <1>1, <2>1, <2>3, <2>4, Concatenated
  <2> QED
    BY <1>1, <1>2, <2>2, <2>5
<1>4. life \notin {"stopped", "opened"}
  BY <1>2 DEF LifeInv
<1> QED
  BY <1>2, <1>3, <1>4 DEF PoolInv

LEMMA PoolStep ==
  ASSUME TypeInv, LifeInv, PoolInv, [Next]_vars
  PROVE  PoolInv'
<1>1. CASE OpenGate \/ CloseGate \/ DeviceNotifies \/ DriverIgnores \/ DriverSkips \/ Cancel
             \/ EcPrepareBuffers \/ TransferDataBuffer \/ IndicateReceiveNetBufferLists
             \/ EcRecoverBuffers
  <2>1. /\ UNCHANGED <<mode, free, bufferRing, letGo, osOwned>>
        /\ life' = life \/ life = "stopped" \/ life' \in {"closing", "stopping"}
        /\ pc' # "advance" => pc # "advance"
    BY <1>1 DEF OpenGate, CloseGate, DeviceNotifies, DriverIgnores, DriverSkips, Cancel,
       EcPrepareBuffers, TransferDataBuffer, IndicateReceiveNetBufferLists, EcRecoverBuffers,
       dataRing, counts
  <2> QED
    BY <2>1 DEF PoolInv
<1>2. CASE Start
  <2>1. life = "opened" /\ bufferRing' = <<>> /\ letGo' = <<>> /\ life' = "started"
        /\ UNCHANGED <<mode, free, osOwned, pc>>
    BY <1>2 DEF Start, counts
  <2>2. pc = "idle"
    BY <2>1 DEF LifeInv
  <2> QED
    BY <2>1, <2>2 DEF PoolInv
<1>3. CASE Stop
  <2>1. /\ free' = free \cup ToSet(bufferRing) /\ bufferRing' = <<>> /\ pc = "idle"
        /\ UNCHANGED <<mode, letGo, osOwned, pc>>
    BY <1>3 DEF Stop
  <2>2. ToSet(bufferRing) = Held(bufferRing) /\ Held(<<>>) = {} /\ Sole(<<>>)
    BY NobodyIsNone, EmptyList DEF TypeInv
  <2>3. ASSUME mode = "ALLOCATE" PROVE Four(free', Held(bufferRing'), Held(letGo), osOwned)
    <3>1. Four(free, Held(bufferRing), Held(letGo), osOwned)
      BY <2>3 DEF PoolInv
    <3>2. Four(free \cup Held(bufferRing), Held(bufferRing) \ Held(bufferRing), Held(letGo), osOwned)
      <4> DEFINE X == Held(bufferRing)
                 l == Held(letGo)
      <4>1. Four(free, X, l, osOwned) /\ X \subseteq X
        BY <3>1
      <4> HIDE DEF X, l
      <4>2. Four(free \cup X, X \ X, l, osOwned)
        BY <4>1, FourMoves
      <4> QED
        BY <4>2 DEF X, l
    <3>3. Held(bufferRing) \ Held(bufferRing) = {}
      OBVIOUS
    <3> QED
      BY <3>2, <3>3, <2>1, <2>2
  <2> QED
    BY <2>1, <2>2, <2>3 DEF PoolInv
<1>4. CASE PostAdvanceRefCounting
  <2>1. /\ UNCHANGED <<mode, life, free, bufferRing>> /\ pc' = "indicate"
        /\ mode = "ALLOCATE" => osOwned' = osOwned \cup ToSet(letGo) /\ letGo' = <<>>
    BY <1>4 DEF PostAdvanceRefCounting
  <2>2. ToSet(letGo) = Held(letGo) /\ Held(<<>>) = {} /\ Sole(<<>>)
    BY NobodyIsNone, EmptyList DEF TypeInv
  <2>3. ASSUME mode = "ALLOCATE" PROVE Four(free, Held(bufferRing), Held(letGo'), osOwned')
    <3> DEFINE X == Held(letGo)
               r == Held(bufferRing)
    <3>1. Four(free, r, X, osOwned)
      BY <2>3 DEF PoolInv
    <3> HIDE DEF X, r
    <3>2. Four(free, r, X \ X, osOwned \cup X)
      BY <3>1, FourMoves
    <3>3. X \ X = {}
      OBVIOUS
    <3> QED
      BY <3>2, <3>3, <2>1, <2>2, <2>3 DEF X, r
  <2> QED
    BY <2>1, <2>2, <2>3 DEF PoolInv
<1>5. CASE EcReturnBuffers
  <2>1. /\ UNCHANGED <<mode, life, bufferRing, letGo>> /\ pc = "idle"
        /\ \E freed \in SUBSET osOwned :
             mode = "ALLOCATE" => free' = free \cup freed /\ osOwned' = osOwned \ freed
    <3> DEFINE back == returned \cup discarded
               times(b) == Cardinality({n \in back : \E part \in chain[n] : part.mdl = b})
               freed == {b \in Buffers : times(b) > 0 /\ refs[b] = times(b) /\ b \in osOwned}
    <3>1. mode = "ALLOCATE" => free' = free \cup freed /\ osOwned' = osOwned \ freed
      BY <1>5, Zenon DEF EcReturnBuffers, FreeReceivedDataBuffer
    <3>2. freed \in SUBSET osOwned
      OBVIOUS
    <3> HIDE DEF freed
    <3> QED
      BY <1>5, <3>1, <3>2 DEF EcReturnBuffers, dataRing
  <2>2. PICK freed \in SUBSET osOwned :
          mode = "ALLOCATE" => free' = free \cup freed /\ osOwned' = osOwned \ freed
    BY <2>1
  <2>3. ASSUME mode = "ALLOCATE" PROVE Four(free', Held(bufferRing), Held(letGo), osOwned')
    <3> DEFINE l == Held(letGo)
               r == Held(bufferRing)
    <3>1. Four(free, r, l, osOwned)
      BY <2>3 DEF PoolInv
    <3> HIDE DEF l, r
    <3>2. Four(free \cup freed, r, l, osOwned \ freed)
      BY <3>1, FourMoves
    <3> QED
      BY <3>2, <2>2, <2>3 DEF l, r
  <2> QED
    BY <2>1, <2>3 DEF PoolInv
<1>6. ASSUME NEW unit \in indicated, ReturnNetBufferLists(unit) PROVE PoolInv'
  BY <1>6 DEF ReturnNetBufferLists, dataRing, counts, PoolInv
<1>7. CASE UNCHANGED vars
  BY <1>7 DEF vars, dataRing, counts, PoolInv
<1> QED
  BY <1>1, <1>2, <1>3, <1>4, <1>5, <1>6, <1>7, PoolReceive, PoolPosts DEF Next, DriverAdvances, Poll

-----------------------------------------------------------------------------
(* The stages of the data path and of the poll function.                    *)
LEMMA LifeInit == ASSUME Init PROVE LifeInv
  BY DEF Init, LifeInv

LEMMA NothingLeft == ASSUME NEW s \in Seq(Nbls), Held(s) = {} PROVE s = <<>>
<1>1. ToSet(s) = {} /\ DOMAIN s = 1 .. Len(s) /\ Len(s) \in Nat
  BY NobodyIsNone, LenProperties
<1>2. Len(s) = 0
  <2>1. CASE Len(s) > 0
    <3>1. 1 \in DOMAIN s
      BY <1>1, <2>1
    <3> QED
      BY <1>1, <3>1 DEF ToSet
  <2> QED
    BY <1>1, <2>1
<1> QED
  BY <1>2, EmptySeq

LEMMA LifeReturn ==
  ASSUME TypeInv, NblInv, LifeInv, EcReturnBuffers
  PROVE  LifeInv'
<1> DEFINE back == returned \cup discarded
<1>1. /\ pc = "idle" /\ life \in {"started", "closing", "stopping"}
      /\ pc' = IF life # "stopping" THEN "prepare"
               ELSE IF posted = <<>> /\ offered = <<>> THEN "recover" ELSE "post"
      /\ returned' = {} /\ discarded' = {} /\ nblPool' = nblPool \cup back
      /\ UNCHANGED <<mode, life, readyToStop, posted, offered, filled, batch, indicated, gateOpen>>
      /\ mode = "ALLOCATE" => UNCHANGED mdlPool
      /\ mode # "ALLOCATE" =>
           mdlPool' = mdlPool \cup {part.mdl : part \in UNION {chain[n] : n \in back}}
  BY DEF EcReturnBuffers, FreeReceivedDataBuffer, AllGivenBack, packetRing, fragmentRing, gate
<1>2. CASE ~readyToStop
  <2>1. mode = "ALLOCATE" => mdlPool' = Buffers
    BY <1>1 DEF LifeInv
  <2> QED
    BY <1>1, <1>2, <2>1 DEF LifeInv
<1>3. CASE readyToStop
  <2>1. nblPool = Nbls /\ mdlPool = Buffers /\ offered = <<>> /\ filled = <<>> /\ life = "stopping"
    BY <1>3 DEF LifeInv
  <2>2. Held(posted) = {} /\ back = {}
    BY <2>1, NblsAllInPool
  <2>3. posted = <<>>
    BY <2>2, NothingLeft DEF TypeInv
  <2>4. {part.mdl : part \in UNION {chain[n] : n \in back}} = {}
    BY <2>2
  <2>5. nblPool' = Nbls /\ mdlPool' = Buffers /\ pc' = "recover"
    BY <1>1, <2>1, <2>2, <2>3, <2>4
  <2> QED
    BY <1>1, <2>1, <2>3, <2>5 DEF LifeInv
<1> QED
  BY <1>2, <1>3 DEF TypeInv

LEMMA LifePrepare ==
  ASSUME TypeInv, LifeInv, EcPrepareBuffers
  PROVE  LifeInv'
<1> DEFINE none == [i \in 1 .. Room(FragmentSlots, offered, filled) |-> None]
<1>1. /\ pc = "prepare" /\ pc' = "post"
      /\ UNCHANGED <<mode, life, readyToStop, batch, indicated, gateOpen>>
      /\ mode = "ALLOCATE" => mdlPool' = mdlPool \ ToSet(none)
  BY Zenon DEF EcPrepareBuffers, gate
<1>2. ToSet(none) \subseteq {None}
  BY FromThePools
<1> HIDE DEF none
<1>3. mode = "ALLOCATE" => mdlPool' = mdlPool
  <2>1. None \notin mdlPool
    BY ColumnTypes
  <2>2. mdlPool \ ToSet(none) = mdlPool
    BY <2>1, <1>2
  <2> QED
    BY <1>1, <2>2
<1> QED
  BY <1>1, <1>3 DEF LifeInv

LEMMA LifeRecover ==
  ASSUME TypeInv, LifeInv, EcRecoverBuffers, TypeInv', NblInv', MdlInv', ChainInv'
  PROVE  LifeInv'
<1>1. /\ pc = "recover" /\ pc' = "idle" /\ drained' = <<>> /\ filled' = <<>>
      /\ UNCHANGED <<mode, life, posted, offered, batch, chain, indicated, returned, discarded,
                     gateOpen>>
      /\ mdlPool' = mdlPool \cup ReclaimSkippedFragments(filled)
  BY Zenon DEF EcRecoverBuffers, gate
<1>2. /\ life = "stopping" /\ posted = <<>> /\ offered = <<>> /\ returned = {} /\ discarded = {}
      /\ batch = <<>> /\ indicated = {}
  BY <1>1 DEF LifeInv
<1>3. nblPool' = Nbls
  <2>1. /\ NblAt'["posted"] = {} /\ NblAt'["drained"] = {} /\ NblAt'["batch"] = {}
        /\ NblAt'["ndis"] = {} /\ NblAt'["returned"] = {} /\ NblAt'["discarded"] = {}
    <3>1. Held(<<>>) = {} /\ Column(<<>>, "nbl") = <<>> /\ UNION {} = {}
      BY EmptyList
    <3> QED
      BY <1>1, <1>2, <3>1, NblPlaceOf
  <2>2. /\ Placed(NblAt', NblWhere, Nbls) /\ "pool" \in NblWhere
        /\ \A j \in NblWhere \ {"pool"} : NblAt'[j] = {}
    BY <2>1 DEF NblInv, NblWhere
  <2>3. Nbls \subseteq NblAt'["pool"]
    BY <2>2, OneHasAll
  <2> QED
    BY <2>3, NblPlaceOf, ZenonT(40) DEF TypeInv
<1>4. mdlPool' = Buffers
  <2>1. CASE mode = "ALLOCATE"
    BY <2>1, <1>1 DEF LifeInv, ReclaimSkippedFragments
  <2>2. CASE mode # "ALLOCATE"
    <3>1. OneBuffer("mdl", mdlPool', Held(<<>>), Column(<<>>, "mdl"), chain')
      BY <2>2, <1>1, <1>2 DEF MdlInv
    <3>2. Held(<<>>) = {} /\ Column(<<>>, "mdl") = <<>>
      BY EmptyList
    <3>3. Carriers' = {}
      <4>1. ToSet(<<>>) = {}
        BY DEF ToSet
      <4> QED
        BY <4>1, <1>1, <1>2 DEF Carriers
    <3>4. \A n \in Nbls : chain'[n] = {}
      BY <3>3 DEF ChainInv
    <3>5. InChains(chain', "mdl") = {}
      BY <3>4 DEF InChains
    <3>6. Four(mdlPool', {}, {}, {})
      BY <3>1, <3>2, <3>5 DEF OneBuffer
    <3>7. Buffers \subseteq mdlPool'
      BY <3>6, FourPlaces
    <3> QED
      BY <3>7 DEF TypeInv
  <2> QED
    BY <2>1, <2>2
<1> QED
  BY <1>1, <1>2, <1>3, <1>4 DEF LifeInv

LEMMA LifeCancel ==
  ASSUME TypeInv, LifeInv, RundownInv, Cancel
  PROVE  LifeInv'
<1>1. /\ life = "closing" /\ life' = "stopping" /\ rundown = 0 /\ pc = "idle"
      /\ UNCHANGED <<mode, readyToStop, pc, batch, mdlPool, indicated, gateOpen>>
  BY DEF Cancel, gate
<1>2. indicated = {}
  <2>1. IsFiniteSet(indicated) /\ Cardinality(indicated) = 0
    BY <1>1, FiniteUnits DEF RundownInv
  <2> QED
    BY <2>1, FS_EmptySet
<1> QED
  BY <1>1, <1>2 DEF LifeInv

LEMMA LifeStep ==
  ASSUME TypeInv, NblInv, LifeInv, RundownInv, TypeInv', NblInv', MdlInv', ChainInv', [Next]_vars
  PROVE  LifeInv'
<1>1. CASE OpenGate \/ Start \/ CloseGate \/ Stop
  BY <1>1 DEF OpenGate, Start, CloseGate, Stop, packetRing, fragmentRing, gate, LifeInv
<1>2. CASE DeviceNotifies \/ DriverIgnores \/ DriverSkips \/ DriverReceives
             \/ PreAdvancePostDataBuffer \/ PostAdvanceRefCounting
  <2>1. /\ UNCHANGED <<mode, life, readyToStop, batch, mdlPool, nblPool, indicated, returned,
                       discarded, gateOpen>>
        /\ \/ UNCHANGED <<pc, posted, offered, filled>>
           \/ pc = "advance" /\ UNCHANGED pc
           \/ pc \in {"post", "advance"} /\ pc' \in {"advance", "indicate"}
    BY <1>2, Zenon DEF DeviceNotifies, DriverIgnores, DriverSkips, DriverReceives,
       PreAdvancePostDataBuffer, PostAdvanceRefCounting, packetRing, fragmentRing, gate
  <2> QED
    BY <2>1 DEF LifeInv
<1>3. CASE TransferDataBuffer
  <2>1. /\ pc = "indicate" /\ UNCHANGED <<mode, life, readyToStop, pc, indicated, gateOpen>>
        /\ mode = "ALLOCATE" => UNCHANGED mdlPool
    <3>1. \E x : UNCHANGED mdlPool \/ mdlPool' = mdlPool \cup ReclaimSkippedFragments(x)
      BY <1>3, Zenon DEF TransferDataBuffer
    <3>2. mode = "ALLOCATE" => \A x : ReclaimSkippedFragments(x) = {}
      BY DEF ReclaimSkippedFragments
    <3> QED
      BY <1>3, <3>1, <3>2 DEF TransferDataBuffer, gate
  <2> QED
    BY <2>1 DEF LifeInv
<1>4. CASE IndicateReceiveNetBufferLists
  <2>1. /\ pc = "indicate" /\ pc' = "idle" /\ batch' = <<>>
        /\ UNCHANGED <<mode, life, readyToStop, gateOpen>>
        /\ mode = "ALLOCATE" => UNCHANGED mdlPool
        /\ gateOpen \/ UNCHANGED indicated
    <3>1. mode = "ALLOCATE" => \A x : ReclaimSkippedFragments(x) = {}
      BY DEF ReclaimSkippedFragments
    <3> QED
      BY <1>4, <3>1, Zenon DEF IndicateReceiveNetBufferLists
  <2> QED
    BY <2>1 DEF LifeInv
<1>5. ASSUME NEW unit \in indicated, ReturnNetBufferLists(unit) PROVE LifeInv'
  BY <1>5 DEF ReturnNetBufferLists, packetRing, fragmentRing, LifeInv
<1>6. CASE UNCHANGED vars
  BY <1>6 DEF vars, packetRing, fragmentRing, gate, LifeInv
<1> QED
  BY <1>1, <1>2, <1>3, <1>4, <1>5, <1>6, LifeReturn, LifePrepare, LifeRecover, LifeCancel
  DEF Next, DriverAdvances, Poll

\* The invariant that holds whatever the driver does.
LEMMA OwnersInit == ASSUME Init PROVE OwnersInv
  BY TypeInit, NblInit, ChainInit, LayoutInit, MdlInit, PoolInit, LifeInit, RundownInit DEF OwnersInv

LEMMA OwnersStep == ASSUME OwnersInv, [Next]_vars PROVE OwnersInv'
<1>1. /\ TypeInv /\ NblInv /\ ChainInv /\ LayoutInv /\ MdlInv /\ DriverMemoryInv /\ PoolInv
      /\ LifeInv /\ RundownInv
  BY DEF OwnersInv
<1>2. TypeInv' /\ NblInv' /\ ChainInv' /\ LayoutInv'
  BY <1>1, TypeStep, NblStep, ChainStep, LayoutStep
<1>3. MdlInv' /\ DriverMemoryInv' /\ PoolInv' /\ RundownInv'
  BY <1>1, MdlStep, PoolStep, RundownStep
<1>4. LifeInv'
  BY <1>1, <1>2, <1>3, LifeStep
<1> QED
  BY <1>2, <1>3, <1>4 DEF OwnersInv

(* Whatever the driver gives back and NDIS returns, and however the queue   *)
(* is cancelled: an NBL is in the pool, carries a packet on its way or is   *)
(* with NDIS, never two of these; an MDL and a piece of the driver's memory *)
(* likewise; a data buffer is in the pool, with the driver or in use by the *)
(* translator and NDIS.  What a queue that is ready to stop has left lies   *)
(* in its pools (nxrxxlat.cpp, EcPrepareBuffersForNetAdapter,               *)
(* EcIndicateNblsToNdis, EcReturnBuffers, EcRecoverBuffers).                *)
THEOREM ReceiveOwners == Spec => []OwnersInv
  BY OwnersInit, OwnersStep, PTL DEF Spec

-----------------------------------------------------------------------------
(* Every reference to a data buffer is counted.                             *)
LEMMA Counted ==
  ASSUME TypeInv, NEW b \in Buffers
  PROVE  /\ InFragments(filled, b) \in Nat
         /\ InFragments(filled, b) = 0 <=> b \notin Held(Column(filled, "memory"))
         /\ Cardinality({i \in DOMAIN filled : filled[i].memory = b}) = InFragments(filled, b)
         /\ IsFiniteSet({n \in Nbls : \E part \in chain[n] : part.memory = b})
         /\ InNbls(chain, b) \in Nat
<1>1. Column(filled, "memory") \in Seq(Memory) /\ b # None
  BY ColumnTypes, NullIsNobody
<1> DEFINE c == Column(filled, "memory")
<1>2. Places(c, b) \in Nat /\ (Places(c, b) = 0 <=> b \notin Held(c))
  BY <1>1, HowOften
<1>3. {i \in DOMAIN filled : filled[i].memory = b} = {i \in DOMAIN c : c[i] = b}
  BY DEF Column
<1>4. {n \in Nbls : \E part \in chain[n] : part.memory = b} \in SUBSET Nbls
  OBVIOUS
<1>5. IsFiniteSet({n \in Nbls : \E part \in chain[n] : part.memory = b})
  BY <1>4, FinitelyMany, FS_Subset
<1>6. InNbls(chain, b) \in Nat
  BY <1>5, FS_CardinalityType DEF InNbls
<1> QED
  BY <1>2, <1>3, <1>5, <1>6 DEF InFragments, Places

\* A poll function that is not at work has left no fragment in use.
LEMMA NoneInUse ==
  ASSUME TypeInv, LayoutInv, \A i \in 1 .. Len(drained) : drained[i].ignore, NEW b \in Buffers
  PROVE  InFragments(filled, b) = 0
<1>1. drained \in Seq(Packet) /\ filled \in Seq(FragmentType) /\ Laid(drained, filled)
  BY ColumnTypes DEF TypeInv, LayoutInv
<1>2. \A x \in 1 .. Len(filled) : filled[x].skipped
  BY <1>1, AllSkipped
<1>3. Held(Column(filled, "memory")) = {}
  BY <1>2, AllTheyHave
<1> QED
  BY <1>3, Counted

LEMMA NoFragment == ASSUME NEW b \in Buffers PROVE InFragments(<<>>, b) = 0
<1>1. Column(<<>>, "memory") = <<>> /\ Held(<<>>) = {}
  BY EmptyList
<1>2. <<>> \in Seq(Buffers) /\ b # None
  BY NullIsNobody
<1> DEFINE s == <<>>
<1> HIDE DEF s
<1>3. s \in Seq(Buffers) /\ Held(s) = {}
  BY <1>1, <1>2 DEF s
<1>4. Places(s, b) = 0 <=> b \notin Held(s)
  BY <1>2, <1>3, HowOften
<1> QED
  BY <1>1, <1>3, <1>4 DEF InFragments, s

LEMMA NoNbl ==
  ASSUME NEW c, \A n \in Nbls : c[n] = {}, NEW b
  PROVE  InNbls(c, b) = 0
<1>1. {n \in Nbls : \E part \in c[n] : part.memory = b} = {}
  OBVIOUS
<1> QED
  BY <1>1, FS_EmptySet DEF InNbls

\* In mode ALLOCATE the MDL of a part is the one of its memory.
LEMMA SameIndex ==
  ASSUME TypeInv, mode = "ALLOCATE", NEW n \in Nbls, NEW part \in chain[n]
  PROVE  part.mdl = part.memory
<1>1. chain[n] \subseteq Parts(mode)
  BY DEF TypeInv
<1> QED
  BY <1>1 DEF Parts

LEMMA CountInit == ASSUME Init PROVE CountInv
<1>1. /\ refs = [b \in Buffers |-> 0] /\ osOwned = {} /\ letGo = <<>> /\ filled = <<>>
      /\ free \subseteq Buffers /\ \A n \in Nbls : chain[n] = {}
  BY DEF Init
<1>2. \A b \in Buffers : InNbls(chain, b) = 0 /\ InFragments(filled, b) = 0
  BY <1>1, NoNbl, NoFragment
<1>3. Held(letGo) = {}
  BY <1>1, EmptyList
<1> QED
  BY <1>1, <1>2, <1>3 DEF CountInv

\* Steps that leave the counts alone.
LEMMA CountStays ==
  ASSUME CountInv, UNCHANGED <<mode, free, refs, osOwned, leftOver, letGo, chain, filled>>,
         (pc' = "advance") <=> (pc = "advance")
  PROVE  CountInv'
  BY DEF CountInv

LEMMA CountCancel ==
  ASSUME TypeInv, DataBufferInv, Cancel
  PROVE  DataBufferInv'
<1> DEFINE t == [i \in DOMAIN offered |-> SkippedFragment(offered[i])]
<1>1. /\ filled' = filled \o t \/ UNCHANGED filled
      /\ UNCHANGED <<mode, pc, free, refs, osOwned, leftOver, letGo, chain>>
  BY DEF Cancel, EvtCancel, fragmentRing, dataRing, counts
<1>2. /\ t \in Seq(FragmentType) /\ filled \in Seq(FragmentType)
      /\ Held(Column(t, "memory")) = {}
  BY GivenBack, SubTypes, ColumnTypes
<1> HIDE DEF t
<1>3. ASSUME NEW b \in Buffers PROVE InFragments(filled \o t, b) = InFragments(filled, b)
  <2> DEFINE m == Column(filled, "memory")
             u == Column(t, "memory")
  <2>0. t \in Seq(FragmentType) /\ filled \in Seq(FragmentType)
    BY <1>2
  <2>1. Column(filled \o t, "memory") = m \o u
    BY <2>0, Fields, ColumnOfConcat
  <2>2. m \in Seq(Memory) /\ u \in Seq(Memory)
    BY <2>0, Fields, ColumnIs
  <2>3. b # None
    BY NullIsNobody
  <2>4. Held(u) = {}
    BY <1>2
  <2> HIDE DEF m, u
  <2>5. Places(m \o u, b) = Places(m, b) + Places(u, b)
    BY <2>2, <2>3, HowOftenInBoth
  <2>6. Places(m, b) \in Nat /\ Places(u, b) = 0
    BY <2>2, <2>3, <2>4, HowOften
  <2>7. Places(m \o u, b) = Places(m, b)
    BY <2>5, <2>6
  <2>8. InFragments(filled \o t, b) = Places(m \o u, b)
    BY <2>1 DEF InFragments
  <2> QED
    BY <2>7, <2>8 DEF InFragments, m
<1>4. letGo' = letGo /\ Held(letGo) \subseteq Buffers /\ free \subseteq Buffers
  BY <1>1, NobodyIsNone DEF TypeInv
<1>5. CASE UNCHANGED filled
  BY <1>1, <1>5 DEF DataBufferInv, CountInv, LeftInv
<1>6. CASE filled' = filled \o t
  <2>1. \A b \in Buffers : InFragments(filled', b) = InFragments(filled, b)
    BY <1>3, <1>6
  <2>2. CountInv'
    BY <1>1, <1>4, <2>1 DEF DataBufferInv, CountInv
  <2>3. LeftInv'
    BY <1>1, <2>1 DEF DataBufferInv, LeftInv
  <2> QED
    BY <2>2, <2>3 DEF DataBufferInv
<1> QED
  BY <1>1, <1>5, <1>6

\* References go with the NBLs that are back; the buffers without any leave for the pool.
LEMMA CountReturn ==
  ASSUME TypeInv, CountInv, EcReturnBuffers
  PROVE  CountInv'
<1> DEFINE back == returned \cup discarded
           In(b) == {n \in Nbls : \E part \in chain[n] : part.memory = b}
           Back(b) == {n \in back : \E part \in chain[n] : part.mdl = b}
           times(b) == Cardinality(Back(b))
           freed == {b \in Buffers : times(b) > 0 /\ refs[b] = times(b) /\ b \in osOwned}
<1>1. /\ pc = "idle" /\ pc' # "advance" /\ UNCHANGED <<mode, filled, letGo, leftOver>>
      /\ chain' = [n \in Nbls |-> IF n \in back THEN {} ELSE chain[n]]
      /\ mode = "ALLOCATE" => /\ refs' = [b \in Buffers |-> refs[b] - times(b)]
                              /\ free' = free \cup freed /\ osOwned' = osOwned \ freed
  BY Zenon DEF EcReturnBuffers, FreeReceivedDataBuffer, fragmentRing, dataRing, counts
<1>2. back \subseteq Nbls
  BY DEF TypeInv
<1>3. ASSUME mode = "ALLOCATE", NEW b \in Buffers
      PROVE  /\ times(b) \in Nat /\ times(b) <= InNbls(chain, b)
             /\ InNbls(chain', b) = InNbls(chain, b) - times(b) /\ InNbls(chain, b) \in Nat
             /\ refs'[b] = refs[b] - times(b) /\ refs[b] \in Int
             /\ refs[b] >= InNbls(chain, b) + InFragments(filled, b)
             /\ b \notin leftOver => refs[b] = InNbls(chain, b) + InFragments(filled, b)
             /\ InFragments(filled, b) \in Nat
  <2>1. Back(b) = In(b) \cap back
    BY <1>2, <1>3, SameIndex
  <2>2. {n \in Nbls : \E part \in chain'[n] : part.memory = b} = In(b) \ Back(b)
    <3>1. \A n \in Nbls : chain'[n] = IF n \in back THEN {} ELSE chain[n]
      BY <1>1
    <3> QED
      BY <3>1, <2>1
  <2>3. IsFiniteSet(In(b)) /\ Cardinality(In(b)) = InNbls(chain, b)
    BY Counted DEF InNbls
  <2>4. InNbls(chain', b) = Cardinality(In(b) \ Back(b))
    BY <2>2 DEF InNbls
  <2>5. Back(b) \in SUBSET In(b) /\ In(b) \cap Back(b) = Back(b)
    BY <2>1
  <2> DEFINE S == In(b)
             T == Back(b)
  <2>6. IsFiniteSet(S) /\ T \in SUBSET S /\ S \cap T = T
    BY <2>3, <2>5
  <2> HIDE DEF S, T
  <2>7. /\ Cardinality(S \ T) = Cardinality(S) - Cardinality(S \cap T)
        /\ IsFiniteSet(T) /\ Cardinality(T) <= Cardinality(S)
    BY <2>6, FS_Difference, FS_Subset
  <2>8. Cardinality(S) \in Nat /\ Cardinality(T) \in Nat
    BY <2>6, <2>7, FS_CardinalityType
  <2>9. /\ times(b) \in Nat /\ times(b) <= InNbls(chain, b)
        /\ InNbls(chain', b) = InNbls(chain, b) - times(b) /\ InNbls(chain, b) \in Nat
    BY <2>3, <2>4, <2>6, <2>7, <2>8 DEF S, T
  <2>10. InFragments(filled, b) \in Nat /\ refs[b] \in Int
    BY Counted DEF TypeInv
  <2>11. refs[b] >= InNbls(chain, b) + InFragments(filled, b)
    BY <1>1, <1>3 DEF CountInv
  <2>12. b \notin leftOver => refs[b] = InNbls(chain, b) + InFragments(filled, b)
    BY <1>1, <1>3 DEF CountInv
  <2>13. refs'[b] = refs[b] - times(b)
    BY <1>1, <1>3
  <2> HIDE DEF times
  <2> QED
    BY <2>9, <2>10, <2>11, <2>12, <2>13
<1>4. ASSUME mode = "ALLOCATE" PROVE CountInv'
  <2>1. /\ \A b \in free : b \in Buffers /\ InNbls(chain, b) = 0 /\ InFragments(filled, b) = 0
        /\ \A b \in osOwned : b \in Buffers /\ refs[b] > 0
        /\ \A b \in Held(letGo) : InFragments(filled, b) > 0
    BY <1>4 DEF CountInv, TypeInv
  <2>2. free' = free \cup freed /\ osOwned' = osOwned \ freed
    BY <1>1, <1>4
  <2>3. \A b \in Buffers : b \in freed <=> times(b) > 0 /\ refs[b] = times(b) /\ b \in osOwned
    OBVIOUS
  <2>4. freed \subseteq Buffers
    OBVIOUS
  <2> HIDE DEF freed, times
  <2>5. \A b \in Buffers : refs'[b] >= InNbls(chain', b) + InFragments(filled, b)
    BY <1>3, <1>4
  <2>8. \A b \in Buffers \ leftOver : refs'[b] = InNbls(chain', b) + InFragments(filled, b)
    BY <1>3, <1>4
  <2>6. \A b \in free' : InNbls(chain', b) = 0 /\ InFragments(filled, b) = 0
    <3>1. SUFFICES ASSUME NEW b \in free' PROVE InNbls(chain', b) = 0 /\ InFragments(filled, b) = 0
      OBVIOUS
    <3>2. b \in Buffers
      BY <2>1, <2>2, <2>4
    <3> DEFINE x == InNbls(chain, b)
               y == InFragments(filled, b)
               z == InNbls(chain', b)
               k == times(b)
    <3>3. /\ k \in Nat /\ k <= x /\ z = x - k /\ x \in Nat /\ y \in Nat /\ refs[b] >= x + y
          /\ refs[b] \in Int
      BY <1>3, <1>4, <3>2
    <3>4. /\ b \in free => x = 0 /\ y = 0
          /\ b \in freed => refs[b] = k
      BY <2>1, <2>3, <3>2
    <3>5. b \in free \/ b \in freed
      BY <2>2
    <3> HIDE DEF x, y, z, k
    <3>6. z = 0 /\ y = 0
      BY <3>3, <3>4, <3>5
    <3> QED
      BY <3>6 DEF y, z
  <2>7. \A b \in osOwned' : refs'[b] > 0
    <3>1. SUFFICES ASSUME NEW b \in osOwned' PROVE refs'[b] > 0
      OBVIOUS
    <3>2. b \in Buffers /\ b \in osOwned /\ b \notin freed /\ refs[b] > 0
      BY <2>1, <2>2
    <3>3. ~(times(b) > 0) \/ refs[b] # times(b)
      BY <2>3, <3>2
    <3> DEFINE x == InNbls(chain, b)
               y == InFragments(filled, b)
               k == times(b)
    <3>4. /\ k \in Nat /\ k <= x /\ x \in Nat /\ y \in Nat /\ refs[b] >= x + y
          /\ refs[b] \in Int /\ refs'[b] = refs[b] - k
      BY <1>3, <1>4, <3>2
    <3>5. ~(k > 0) \/ refs[b] # k
      BY <3>3
    <3> HIDE DEF x, y, k
    <3> QED
      BY <3>2, <3>4, <3>5
  <2> QED
    BY <1>1, <2>1, <2>5, <2>6, <2>7, <2>8 DEF CountInv
<1> QED
  BY <1>1, <1>4 DEF CountInv

LEMMA CountReceive ==
  ASSUME TypeInv, PoolInv, CountInv, DriverReceives
  PROVE  CountInv'
<1>1. PICK count \in 1 .. SmallerOf(MaxFragments, Len(offered)) :
        TakesMemory(count) /\ filled' = filled \o Attached(count)
  BY DEF DriverReceives
<1> DEFINE t == Attached(count)
           a == SubSeq(bufferRing, 1, count)
           m == Column(filled, "memory")
<1>2. /\ UNCHANGED <<mode, pc, free, refs, osOwned, leftOver, chain>> /\ pc = "advance"
      /\ mode = "ALLOCATE" => /\ count <= Len(bufferRing)
                              /\ letGo' = letGo \o a \/ UNCHANGED letGo
      /\ mode = "DRIVER" => count <= Cardinality(driverMemory)
  BY <1>1, Zenon DEF TakesMemory, DriverReceives, TypeInv, counts, dataRing
<1>3. CASE mode # "ALLOCATE"
  BY <1>2, <1>3 DEF CountInv
<1>4. CASE mode = "ALLOCATE"
  <2>1. /\ t \in Seq(FragmentType) /\ filled \in Seq(FragmentType) /\ count \in 0 .. Len(bufferRing)
        /\ Column(t, "memory") = a /\ m \in Seq(Memory)
    <3>1. /\ count \in 1 .. Len(offered) /\ t \in Seq(Fragments(mode))
          /\ mode = "ALLOCATE" => Column(t, "memory") = SubSeq(bufferRing, 1, count)
      BY <1>1, <1>2, WithMemory
    <3>2. Len(bufferRing) \in Nat
      BY LenProperties DEF TypeInv
    <3>3. count \in 0 .. Len(bufferRing)
      BY <3>1, <3>2, <1>2, <1>4
    <3>4. t \in Seq(FragmentType)
      BY <3>1, SubTypes
    <3> QED
      BY <3>1, <3>3, <3>4, <1>4, ColumnTypes
  <2>2. Column(filled', "memory") = m \o a
    <3>1. t \in Seq(FragmentType) /\ filled \in Seq(FragmentType)
      BY <2>1
    <3> HIDE DEF t
    <3>2. Column(filled \o t, "memory") = Column(filled, "memory") \o Column(t, "memory")
      BY <3>1, Fields, ColumnOfConcat
    <3> QED
      BY <3>2, <2>1, <1>1 DEF t
  <2>3. bufferRing \in Seq(Buffers) /\ letGo \in Seq(Buffers)
    BY DEF TypeInv
  <2>4. a \in Seq(Buffers) /\ Held(a) \subseteq Held(bufferRing)
    <3> DEFINE b == SubSeq(bufferRing, count + 1, Len(bufferRing))
    <3>1. count \in 0 .. Len(bufferRing)
      BY <2>1
    <3>2. a \in Seq(Buffers) /\ Held(bufferRing) = Held(a) \cup Held(b)
      BY <3>1, <2>3, Parted
    <3> QED
      BY <3>2
  <2>5. a \in Seq(Memory)
    <3>1. Buffers \subseteq Memory
      BY DEF Memory
    <3> HIDE DEF a
    <3> QED
      BY <3>1, <2>4, SeqDef
  <2> HIDE DEF a, t, m
  <2>6. ASSUME NEW b \in Buffers
        PROVE  /\ InFragments(filled', b) = InFragments(filled, b) + Places(a, b)
               /\ InFragments(filled, b) \in Nat /\ Places(a, b) \in Nat
               /\ Places(a, b) = 0 <=> b \notin Held(a)
    <3>1. b # None
      BY NullIsNobody
    <3>2. Places(m \o a, b) = Places(m, b) + Places(a, b)
      BY <2>1, <2>5, <3>1, HowOftenInBoth
    <3>3. Places(a, b) \in Nat /\ (Places(a, b) = 0 <=> b \notin Held(a))
      BY <2>5, <3>1, HowOften
    <3>4. InFragments(filled', b) = Places(m \o a, b) /\ InFragments(filled, b) = Places(m, b)
      BY <2>2 DEF InFragments, m
    <3>5. InFragments(filled, b) \in Nat
      BY Counted
    <3> QED
      BY <3>2, <3>3, <3>4, <3>5
  <2>7. \A b \in free : b \in Buffers /\ b \notin Held(a)
    <3>1. Four(free, Held(bufferRing), Held(letGo), osOwned)
      BY <1>4 DEF PoolInv
    <3> QED
      BY <3>1, <2>4, FourPlaces DEF TypeInv
  <2>8. \A b \in free : InNbls(chain, b) = 0 /\ InFragments(filled', b) = 0
    <3>1. SUFFICES ASSUME NEW b \in free PROVE InNbls(chain, b) = 0 /\ InFragments(filled', b) = 0
      OBVIOUS
    <3>2. b \in Buffers /\ InNbls(chain, b) = 0 /\ InFragments(filled, b) = 0
      BY <1>4, <2>7 DEF CountInv
    <3> QED
      BY <2>6, <2>7, <3>2
  <2>9. \A b \in Held(letGo') : InFragments(filled', b) > 0
    <3>1. Held(letGo \o a) = Held(letGo) \cup Held(a)
      BY <2>3, <2>4, Concatenated
    <3>2. Held(letGo') \subseteq Held(letGo) \cup Held(a)
      BY <3>1, <1>2, <1>4
    <3>3. Held(letGo) \subseteq Buffers /\ Held(a) \subseteq Buffers
      BY <2>3, <2>4, NobodyIsNone
    <3>4. \A b \in Held(letGo) : InFragments(filled, b) > 0
      BY <1>4 DEF CountInv
    <3>5. SUFFICES ASSUME NEW b \in Held(letGo) \cup Held(a) PROVE InFragments(filled', b) > 0
      BY <3>2
    <3>6. b \in Buffers
      BY <3>3
    <3> QED
      BY <2>6, <3>4, <3>6
  <2> QED
    BY <1>2, <1>4, <2>8, <2>9 DEF CountInv
<1> QED
  BY <1>3, <1>4

LEMMA CountPosts ==
  ASSUME TypeInv, CountInv, LeftInv, PreAdvancePostDataBuffer
  PROVE  CountInv'
<1>1. /\ pc = "post" /\ pc' = "advance" /\ free' \subseteq free
      /\ UNCHANGED <<mode, filled, letGo, refs, osOwned, leftOver, chain>>
  BY Zenon DEF PreAdvancePostDataBuffer, fragmentRing
<1>2. ASSUME mode = "ALLOCATE", NEW b \in Buffers
      PROVE  /\ refs[b] >= InNbls(chain, b) + 0
             /\ b \notin leftOver => refs[b] = InNbls(chain, b) + 0
  <2>1. refs[b] >= InNbls(chain, b) + InFragments(filled, b)
    BY <1>1, <1>2 DEF CountInv
  <2>2. b \notin leftOver => refs[b] = InNbls(chain, b) + InFragments(filled, b)
    BY <1>1, <1>2 DEF CountInv
  <2>3. b \notin leftOver => InFragments(filled, b) = 0
    BY <1>1, <1>2 DEF LeftInv
  <2>4. InFragments(filled, b) \in Nat /\ InNbls(chain, b) \in Nat /\ refs[b] \in Int
    BY Counted DEF TypeInv
  <2> QED
    BY <2>1, <2>2, <2>3, <2>4
<1> QED
  BY <1>1, <1>2 DEF CountInv

LEMMA CountAdvances ==
  ASSUME TypeInv, CountInv, PostAdvanceRefCounting
  PROVE  CountInv'
<1> DEFINE times(b) == Cardinality({i \in DOMAIN filled : filled[i].memory = b})
<1>1. /\ pc = "advance" /\ pc' = "indicate" /\ UNCHANGED <<mode, filled, chain, free, leftOver>>
      /\ mode = "ALLOCATE" => /\ refs' = [b \in Buffers |-> refs[b] + times(b)]
                              /\ osOwned' = osOwned \cup ToSet(letGo) /\ letGo' = <<>>
  BY DEF PostAdvanceRefCounting, fragmentRing
<1>2. ASSUME mode = "ALLOCATE", NEW b \in Buffers
      PROVE  /\ refs'[b] = refs[b] + InFragments(filled, b) /\ refs[b] >= InNbls(chain, b)
             /\ b \notin leftOver => refs[b] = InNbls(chain, b)
             /\ InFragments(filled, b) \in Nat /\ InNbls(chain, b) \in Nat /\ refs[b] \in Int
  <2>1. refs'[b] = refs[b] + times(b)
    BY <1>1, <1>2
  <2>2. /\ times(b) = InFragments(filled, b) /\ InFragments(filled, b) \in Nat
        /\ InNbls(chain, b) \in Nat /\ refs[b] \in Int
    BY Counted DEF TypeInv
  <2> HIDE DEF times
  <2>3. refs[b] >= InNbls(chain, b) + 0 /\ (b \notin leftOver => refs[b] = InNbls(chain, b) + 0)
    BY <1>1, <1>2 DEF CountInv
  <2> QED
    BY <2>1, <2>2, <2>3
<1> HIDE DEF times
<1>3. ASSUME mode = "ALLOCATE" PROVE CountInv'
  <2>1. \A b \in free : InNbls(chain, b) = 0 /\ InFragments(filled, b) = 0
    BY <1>3 DEF CountInv
  <2>2. \A b \in osOwned : b \in Buffers /\ refs[b] > 0
    BY <1>3 DEF CountInv, TypeInv
  <2>3. \A b \in ToSet(letGo) : b \in Buffers /\ InFragments(filled, b) > 0
    <3>1. ToSet(letGo) = Held(letGo) /\ Held(letGo) \subseteq Buffers
      BY NobodyIsNone DEF TypeInv
    <3> QED
      BY <3>1, <1>3 DEF CountInv
  <2>4. \A b \in Buffers : refs'[b] >= InNbls(chain, b) + InFragments(filled, b)
    BY <1>2, <1>3
  <2>5. \A b \in Buffers \ leftOver : refs'[b] = InNbls(chain, b) + InFragments(filled, b)
    BY <1>2, <1>3
  <2>6. \A b \in osOwned' : refs'[b] > 0
    <3>1. SUFFICES ASSUME NEW b \in osOwned \cup ToSet(letGo) PROVE refs'[b] > 0
      BY <1>1, <1>3
    <3>2. CASE b \in osOwned
      BY <1>2, <1>3, <2>2, <3>2
    <3>3. CASE b \in ToSet(letGo)
      BY <1>2, <1>3, <2>3, <3>3
    <3> QED
      BY <3>1, <3>2, <3>3
  <2>7. Held(letGo') = {}
    BY <1>1, <1>3, EmptyList
  <2> QED
    BY <1>1, <2>1, <2>4, <2>5, <2>6, <2>7 DEF CountInv
<1> QED
  BY <1>1, <1>3 DEF CountInv

LEMMA CountTransfer ==
  ASSUME TypeInv, NblInv, ChainInv, LayoutInv, PoolInv, CountInv, TransferDataBuffer
  PROVE  CountInv'
<1> DEFINE packet == Head(drained)
           first  == FirstUsed(filled)
           next   == first + packet.count
           taken  == SubSeq(filled, first, next - 1)
           rest   == SubSeq(filled, next, Len(filled))
           parts  == {[mdl |-> filled[i].mdl, memory |-> filled[i].memory] : i \in first .. next - 1}
           nbl    == packet.nbl
           memory == Held(Column(taken, "memory"))
<1>1. /\ drained # <<>> /\ pc = "indicate"
      /\ UNCHANGED <<mode, pc, free, refs, osOwned, leftOver, letGo>>
      /\ packet.ignore => UNCHANGED <<filled, chain>>
      /\ ~packet.ignore => filled' = rest /\ chain' = [chain EXCEPT ![nbl] = parts]
  BY Zenon DEF TransferDataBuffer, FirstUsed, dataRing, counts
<1>2. CASE packet.ignore
  BY <1>1, <1>2, CountStays
<1>3. CASE ~packet.ignore
  <2>1. /\ {part["memory"] : part \in parts} = memory
        /\ \A b \in Buffers :
             InFragments(filled, b) = (IF b \in memory THEN 1 ELSE 0) + InFragments(rest, b)
    BY <1>1, <1>3, Transferred
  <2>2. nbl \in Nbls /\ chain[nbl] = {}
    BY <1>1, NextIsFree
  <2>3. filled' = rest /\ chain'[nbl] = parts /\ \A n \in Nbls : n # nbl => chain'[n] = chain[n]
    BY <1>1, <1>3, <2>2 DEF TypeInv
  <2>4. rest \in Seq(Fragments(mode))
    BY <1>1, <1>3, Transferred
  <2> HIDE DEF packet, first, next, taken, rest, parts, nbl, memory
  <2>5. ASSUME NEW b \in Buffers
        PROVE  /\ InNbls(chain', b) = InNbls(chain, b) + (IF b \in memory THEN 1 ELSE 0)
               /\ InNbls(chain, b) \in Nat
    <3> DEFINE S == {n \in Nbls : \E part \in chain[n] : part.memory = b}
               T == {n \in Nbls : \E part \in chain'[n] : part.memory = b}
    <3>1. IsFiniteSet(S) /\ nbl \notin S /\ InNbls(chain, b) \in Nat
      BY <2>2, Counted
    <3>2. b \in memory => T = S \cup {nbl}
      BY <2>1, <2>2, <2>3
    <3>3. b \notin memory => T = S
      BY <2>1, <2>2, <2>3
    <3>4. Cardinality(S) = InNbls(chain, b) /\ Cardinality(T) = InNbls(chain', b)
      BY DEF InNbls
    <3> HIDE DEF S, T
    <3>5. Cardinality(S \cup {nbl}) = Cardinality(S) + 1
      BY <3>1, FS_AddElement
    <3> QED
      BY <3>1, <3>2, <3>3, <3>4, <3>5
  <2>6. ASSUME NEW b \in Buffers PROVE InFragments(rest, b) \in Nat
    <3>1. Column(rest, "memory") \in Seq(Memory) /\ b # None
      BY <2>4, SubTypes, ColumnIs, NullIsNobody
    <3> DEFINE m == Column(rest, "memory")
    <3> HIDE DEF m
    <3>2. m \in Seq(Memory) => Places(m, b) \in Nat
      BY <3>1, HowOften
    <3> QED
      BY <3>1, <3>2 DEF InFragments, m
  <2>7. ASSUME mode = "ALLOCATE" PROVE CountInv'
    <3>1. \A b \in Buffers : InNbls(chain, b) + InFragments(filled, b)
                               = InNbls(chain', b) + InFragments(rest, b)
      <4>1. SUFFICES ASSUME NEW b \in Buffers
                     PROVE  InNbls(chain, b) + InFragments(filled, b)
                              = InNbls(chain', b) + InFragments(rest, b)
        OBVIOUS
      <4>2. /\ InFragments(filled, b) = (IF b \in memory THEN 1 ELSE 0) + InFragments(rest, b)
            /\ InNbls(chain', b) = InNbls(chain, b) + (IF b \in memory THEN 1 ELSE 0)
            /\ InNbls(chain, b) \in Nat /\ InFragments(rest, b) \in Nat
        BY <2>1, <2>5, <2>6
      <4> QED
        BY <4>2
    <3>2. /\ \A b \in Buffers : refs[b] >= InNbls(chain', b) + InFragments(rest, b)
          /\ \A b \in Buffers \ leftOver : refs[b] = InNbls(chain', b) + InFragments(rest, b)
      <4>1. /\ \A b \in Buffers : refs[b] >= InNbls(chain, b) + InFragments(filled, b)
            /\ \A b \in Buffers \ leftOver : refs[b] = InNbls(chain, b) + InFragments(filled, b)
        BY <1>1, <2>7 DEF CountInv
      <4> QED
        BY <3>1, <4>1
    <3>3. \A b \in free : InNbls(chain', b) = 0 /\ InFragments(rest, b) = 0
      <4>1. SUFFICES ASSUME NEW b \in free PROVE InNbls(chain', b) = 0 /\ InFragments(rest, b) = 0
        OBVIOUS
      <4>2. b \in Buffers /\ InNbls(chain, b) = 0 /\ InFragments(filled, b) = 0
        BY <2>7 DEF CountInv, TypeInv
      <4>3. /\ InFragments(filled, b) = (IF b \in memory THEN 1 ELSE 0) + InFragments(rest, b)
            /\ InNbls(chain', b) = InNbls(chain, b) + (IF b \in memory THEN 1 ELSE 0)
            /\ InFragments(rest, b) \in Nat
        BY <4>2, <2>1, <2>5, <2>6
      <4> QED
        BY <4>2, <4>3
    <3>4. Held(letGo') = {}
      <4>1. letGo = <<>>
        BY <1>1, <2>7 DEF PoolInv
      <4> QED
        BY <4>1, <1>1, EmptyList
    <3> QED
      BY <1>1, <2>3, <2>7, <3>2, <3>3, <3>4 DEF CountInv
  <2> QED
    BY <1>1, <2>7 DEF CountInv
<1> QED
  BY <1>2, <1>3

LEMMA CountIndicate ==
  ASSUME TypeInv, LayoutInv, CountInv, IndicateReceiveNetBufferLists
  PROVE  DataBufferInv'
<1>1. /\ pc = "indicate" /\ pc' = "idle"
      /\ UNCHANGED <<mode, free, refs, osOwned, letGo, chain>> /\ leftOver \subseteq leftOver'
      /\ \/ drained = <<>> /\ filled' = <<>>
         \/ /\ UNCHANGED filled
            /\ mode = "ALLOCATE" =>
                 {filled[i].memory : i \in DOMAIN filled} \ {None} \subseteq leftOver'
  BY DEF IndicateReceiveNetBufferLists, dataRing
<1>2. CASE drained = <<>> /\ filled' = <<>>
  <2>1. \A b \in Buffers : InFragments(filled', b) = 0 /\ InFragments(filled, b) = 0
    BY <1>2, NoneInUse, NoFragment
  <2>2. free \subseteq Buffers /\ Held(letGo) \subseteq Buffers
    BY NobodyIsNone DEF TypeInv
  <2>3. CountInv'
    BY <1>1, <2>1, <2>2 DEF CountInv
  <2> QED
    BY <1>1, <2>1, <2>3 DEF DataBufferInv, LeftInv
<1>3. CASE /\ UNCHANGED filled
           /\ mode = "ALLOCATE" =>
                {filled[i].memory : i \in DOMAIN filled} \ {None} \subseteq leftOver'
  <2>1. CountInv'
    BY <1>1, <1>3 DEF CountInv
  <2>2. ASSUME mode = "ALLOCATE", NEW b \in Buffers \ leftOver' PROVE InFragments(filled, b) = 0
    <3>1. b \notin Held(Column(filled, "memory"))
      <4>1. b # None /\ b \notin {filled[i].memory : i \in DOMAIN filled}
        BY <1>3, <2>2, NullIsNobody
      <4> QED
        BY <4>1 DEF Held, Column, ToSet
    <3> QED
      BY <3>1, Counted
  <2>3. LeftInv'
    BY <1>1, <1>3, <2>2 DEF LeftInv
  <2> QED
    BY <2>1, <2>3 DEF DataBufferInv
<1> QED
  BY <1>1, <1>2, <1>3

\* The fragments that the last poll has left over are dropped with their references.
LEMMA CountRecover ==
  ASSUME TypeInv, DataBufferInv, PoolInv, EcRecoverBuffers
  PROVE  DataBufferInv'
<1>1. /\ pc = "recover" /\ pc' = "idle" /\ filled' = <<>>
      /\ UNCHANGED <<mode, free, refs, osOwned, leftOver, letGo, chain>>
  BY Zenon DEF EcRecoverBuffers, dataRing, counts
<1>2. \A b \in Buffers : /\ InFragments(filled', b) = 0 /\ InFragments(filled, b) \in Nat
                         /\ InNbls(chain, b) \in Nat /\ refs[b] \in Int
  BY <1>1, NoFragment, Counted DEF TypeInv
<1>3. ASSUME mode = "ALLOCATE"
      PROVE  /\ \A b \in Buffers : refs[b] >= InNbls(chain, b) + InFragments(filled, b)
             /\ \A b \in Buffers \ leftOver : /\ refs[b] = InNbls(chain, b) + InFragments(filled, b)
                                              /\ InFragments(filled, b) = 0
  BY <1>1, <1>3 DEF DataBufferInv, CountInv, LeftInv
<1>4. ASSUME mode = "ALLOCATE"
      PROVE  /\ \A b \in Buffers : refs[b] >= InNbls(chain, b) + 0
             /\ \A b \in Buffers \ leftOver : refs[b] = InNbls(chain, b) + 0
  BY <1>2, <1>3, <1>4
<1>5. free \subseteq Buffers /\ (mode = "ALLOCATE" => Held(letGo) = {})
  BY <1>1, EmptyList DEF TypeInv, PoolInv
<1>6. CountInv'
  BY <1>1, <1>2, <1>4, <1>5 DEF DataBufferInv, CountInv
<1>7. LeftInv'
  BY <1>2 DEF LeftInv
<1> QED
  BY <1>6, <1>7 DEF DataBufferInv

\* A queue that is ready to stop has nothing in use.
LEMMA NothingInUse ==
  ASSUME TypeInv, NblInv, ChainInv, nblPool = Nbls, filled = <<>>, NEW b \in Buffers
  PROVE  InNbls(chain, b) = 0 /\ InFragments(filled, b) = 0
<1>1. Held(batch) = {} /\ UNION indicated = {} /\ returned = {} /\ discarded = {}
  BY NblsAllInPool
<1>2. Carriers = {}
  <2>1. ToSet(batch) = {}
    BY <1>1, NobodyIsNone DEF TypeInv
  <2> QED
    BY <1>1, <2>1 DEF Carriers
<1>3. InNbls(chain, b) = 0
  BY <1>2, NoNbl DEF ChainInv
<1>4. InFragments(filled, b) = 0
  BY NoFragment
<1> QED
  BY <1>3, <1>4

LEMMA CountStop ==
  ASSUME TypeInv, NblInv, ChainInv, LifeInv, DataBufferInv, Stop
  PROVE  DataBufferInv'
<1>1. /\ readyToStop /\ pc = "idle" /\ free' = free \cup ToSet(bufferRing)
      /\ UNCHANGED <<mode, pc, filled, letGo, chain, refs, osOwned, leftOver>>
  BY DEF Stop, fragmentRing
<1>2. nblPool = Nbls /\ filled = <<>>
  BY <1>1 DEF LifeInv
<1>3. \A b \in Buffers : InNbls(chain, b) = 0 /\ InFragments(filled, b) = 0
  BY <1>2, NothingInUse
<1>4. free' \subseteq Buffers
  BY <1>1, NobodyIsNone DEF TypeInv
<1>5. CountInv'
  BY <1>1, <1>3, <1>4 DEF DataBufferInv, CountInv
<1>6. LeftInv'
  BY <1>1 DEF DataBufferInv, LeftInv
<1> QED
  BY <1>5, <1>6 DEF DataBufferInv

LEMMA LeftStays ==
  ASSUME LeftInv, UNCHANGED <<mode, filled, leftOver>>,
         pc' \in {"advance", "indicate"} \/ pc \notin {"advance", "indicate"}
  PROVE  LeftInv'
  BY DEF LeftInv

LEMMA CountStep ==
  ASSUME OwnersInv, DataBufferInv, [Next]_vars
  PROVE  DataBufferInv'
<1>0. /\ TypeInv /\ NblInv /\ ChainInv /\ LayoutInv /\ LifeInv /\ PoolInv
      /\ CountInv /\ LeftInv
  BY DEF OwnersInv, DataBufferInv
<1>1. CASE OpenGate \/ CloseGate \/ DeviceNotifies \/ DriverIgnores \/ EcPrepareBuffers
  <2>1. UNCHANGED <<mode, free, refs, osOwned, leftOver, letGo, chain, filled>>
    BY <1>1 DEF OpenGate, CloseGate, DeviceNotifies, DriverIgnores, EcPrepareBuffers,
       fragmentRing, dataRing, counts
  <2>2. pc' = pc \/ (pc = "prepare" /\ pc' = "post")
    BY <1>1 DEF OpenGate, CloseGate, DeviceNotifies, DriverIgnores, EcPrepareBuffers
  <2> QED
    BY <1>0, <2>1, <2>2, CountStays, LeftStays DEF DataBufferInv
<1>2. CASE DriverSkips
  BY <1>0, <1>2 DEF DriverSkips, CountInv, LeftInv, DataBufferInv
<1>3. CASE Start
  <2>1. life = "opened" /\ filled' = <<>> /\ letGo' = <<>>
        /\ UNCHANGED <<mode, pc, chain, free, refs, osOwned, leftOver>>
    BY <1>3 DEF Start, counts
  <2>2. filled = <<>> /\ pc = "idle"
    BY <1>0, <2>1 DEF LifeInv
  <2>3. mode = "ALLOCATE" => letGo = <<>>
    BY <1>0, <2>2 DEF PoolInv
  <2> QED
    BY <1>0, <2>1, <2>2, <2>3 DEF CountInv, LeftInv, DataBufferInv
<1>4. ASSUME NEW unit \in indicated, ReturnNetBufferLists(unit) PROVE DataBufferInv'
  BY <1>0, <1>4, CountStays, LeftStays
  DEF ReturnNetBufferLists, fragmentRing, dataRing, counts, DataBufferInv
<1>5. CASE EcReturnBuffers
  <2>1. UNCHANGED <<mode, filled, leftOver>> /\ pc = "idle"
    BY <1>5, Zenon DEF EcReturnBuffers, FreeReceivedDataBuffer, fragmentRing, counts
  <2> QED
    BY <1>0, <1>5, <2>1, CountReturn, LeftStays DEF DataBufferInv
<1>6. CASE DriverReceives
  <2>1. UNCHANGED <<mode, pc>> /\ pc = "advance"
    BY <1>6 DEF DriverReceives
  <2>2. LeftInv'
    BY <2>1 DEF LeftInv
  <2> QED
    BY <1>0, <1>6, <2>2, CountReceive DEF DataBufferInv
<1>7. CASE PreAdvancePostDataBuffer
  <2>1. LeftInv'
    BY <1>7 DEF PreAdvancePostDataBuffer, LeftInv
  <2> QED
    BY <1>0, <1>7, <2>1, CountPosts DEF DataBufferInv
<1>8. CASE PostAdvanceRefCounting
  <2>1. LeftInv'
    BY <1>8 DEF PostAdvanceRefCounting, LeftInv
  <2> QED
    BY <1>0, <1>8, <2>1, CountAdvances DEF DataBufferInv
<1>9. CASE TransferDataBuffer
  <2>1. LeftInv'
    BY <1>9 DEF TransferDataBuffer, LeftInv
  <2> QED
    BY <1>0, <1>9, <2>1, CountTransfer DEF DataBufferInv
<1>10. CASE UNCHANGED vars
  BY <1>0, <1>10, CountStays, LeftStays DEF vars, fragmentRing, dataRing, counts, DataBufferInv
<1> QED
  BY <1>0, <1>1, <1>2, <1>3, <1>4, <1>5, <1>6, <1>7, <1>8, <1>9, <1>10, CountCancel,
     CountIndicate, CountRecover, CountStop
  DEF Next, DriverAdvances, Poll

LEMMA DataBuffersInit == ASSUME Init PROVE DataBufferInv
<1>1. /\ filled = <<>> /\ CountInv
  BY CountInit DEF Init
<1>2. \A b \in Buffers : InFragments(filled, b) = 0
  BY <1>1, NoFragment
<1> QED
  BY <1>1, <1>2 DEF DataBufferInv, LeftInv

(* On top of that, a data buffer has at least as many references as         *)
(* fragments and NBLs use it, so that none is freed while it is in use; and *)
(* exactly as many, unless a full batch has left fragments of it in the     *)
(* ring.  PostAdvanceRefCounting (queue.cpp) counts from OSReserved0 to     *)
(* BeginIndex of the fragment ring, the poll function takes the counts back *)
(* NBL by NBL: what a batch leaves in the ring is counted again by the next *)
(* poll, or dropped by EcRecoverBuffers.                                    *)
THEOREM ReceiveDataBuffers == Spec => [](OwnersInv /\ DataBufferInv)
<1>1. Init => OwnersInv /\ DataBufferInv
  BY OwnersInit, DataBuffersInit
<1>2. OwnersInv /\ DataBufferInv /\ [Next]_vars => OwnersInv' /\ DataBufferInv'
  BY OwnersStep, CountStep
<1> QED
  BY <1>1, <1>2, PTL DEF Spec

-----------------------------------------------------------------------------
(* What the invariant says of the properties.                               *)

LEMMA NblHasOnePlace ==
  ASSUME TypeInv, NblInv, NEW n \in Nbls
  PROVE  NblPlaces(n) = 1
<1>1. /\ posted \in Seq(Nbls) /\ batch \in Seq(Nbls) /\ Column(drained, "nbl") \in Seq(Nbls)
      /\ n # None
  BY ColumnTypes, NullIsNobody DEF TypeInv
<1>2. Sole(posted) /\ Sole(batch) /\ Sole(Column(drained, "nbl"))
  BY DEF NblInv
<1>3. Places(posted, n) = IF n \in Held(posted) THEN 1 ELSE 0
  BY <1>1, <1>2, HowOften
<1>4. Places(batch, n) = IF n \in Held(batch) THEN 1 ELSE 0
  BY <1>1, <1>2, HowOften
<1>5. Cardinality({i \in DOMAIN drained : drained[i].nbl = n})
        = IF n \in Held(Column(drained, "nbl")) THEN 1 ELSE 0
  <2> DEFINE c == Column(drained, "nbl")
  <2>1. {i \in DOMAIN drained : drained[i].nbl = n} = {i \in DOMAIN c : c[i] = n}
    BY DEF Column
  <2>2. c \in Seq(Nbls) /\ Sole(c)
    BY <1>1, <1>2
  <2> HIDE DEF c
  <2>3. Places(c, n) = IF n \in Held(c) THEN 1 ELSE 0
    BY <1>1, <2>2, HowOften
  <2> QED
    BY <2>1, <2>3 DEF Places, c
<1>6. Cardinality({unit \in indicated : n \in unit}) = IF n \in UNION indicated THEN 1 ELSE 0
  <2> DEFINE S == {unit \in indicated : n \in unit}
  <2>1. \A u, v \in S : u = v
    BY DEF NblInv, Disjoint
  <2>2. S = {} <=> n \notin UNION indicated
    OBVIOUS
  <2> HIDE DEF S
  <2>3. Cardinality(S) = IF S = {} THEN 0 ELSE 1
    BY <2>1, AtMostOne
  <2> QED
    BY <2>2, <2>3 DEF S
<1>7. /\ Cardinality({n} \cap nblPool) = IF n \in nblPool THEN 1 ELSE 0
      /\ Cardinality({n} \cap returned) = IF n \in returned THEN 1 ELSE 0
      /\ Cardinality({n} \cap discarded) = IF n \in discarded THEN 1 ELSE 0
  BY InASet
<1>8. PICK k \in NblWhere : \A j \in NblWhere : n \in NblAt[j] <=> j = k
  BY DEF NblInv, Placed
<1>9. /\ n \in nblPool <=> k = "pool"
      /\ n \in Held(posted) <=> k = "posted"
      /\ n \in Held(Column(drained, "nbl")) <=> k = "drained"
      /\ n \in Held(batch) <=> k = "batch"
      /\ n \in UNION indicated <=> k = "ndis"
      /\ n \in returned <=> k = "returned"
      /\ n \in discarded <=> k = "discarded"
  BY <1>8, NblPlaceOf DEF NblWhere
<1>10. \/ k = "pool" \/ k = "posted" \/ k = "drained" \/ k = "batch" \/ k = "ndis"
       \/ k = "returned" \/ k = "discarded"
  BY <1>8 DEF NblWhere
<1> QED
  BY <1>3, <1>4, <1>5, <1>6, <1>7, <1>9, <1>10 DEF NblPlaces

\* The NBLs that carry a buffer.
LEMMA CarriersOf ==
  ASSUME TypeInv, ChainInv, NEW f, NEW b
  PROVE  {n \in Carriers : \E part \in chain[n] : part[f] = b}
           = {n \in Nbls : \E part \in chain[n] : part[f] = b}
<1>1. Carriers \subseteq Nbls
  BY FiniteUnits
<1>2. \A n \in Nbls : n \notin Carriers => chain[n] = {}
  BY DEF ChainInv
<1> QED
  BY <1>1, <1>2

LEMMA OneOfFour ==
  ASSUME TypeInv, ChainInv, NEW f \in {"mdl", "memory"}, NEW pool, NEW held,
         OneBuffer(f, pool, held, Column(filled, f), chain), NEW b \in Buffers
  PROVE  Cardinality({b} \cap pool) + (IF b \in held THEN 1 ELSE 0)
           + Cardinality({i \in DOMAIN filled : filled[i][f] = b})
           + Cardinality({n \in Carriers : \E part \in chain[n] : part[f] = b}) = 1
<1> DEFINE c == Column(filled, f)
           S == {n \in Nbls : \E part \in chain[n] : part[f] = b}
<1>1. Four(pool, held, Held(c), InChains(chain, f)) /\ Sole(c) /\ Unshared(chain, f)
  BY DEF OneBuffer
<1>2. Cardinality({i \in DOMAIN filled : filled[i][f] = b}) = IF b \in Held(c) THEN 1 ELSE 0
  <2>1. {i \in DOMAIN filled : filled[i][f] = b} = {i \in DOMAIN c : c[i] = b}
    BY DEF Column
  <2>2. c \in Seq(Memory) /\ b # None
    BY ColumnTypes, NullIsNobody
  <2> HIDE DEF c
  <2>3. Places(c, b) = IF b \in Held(c) THEN 1 ELSE 0
    BY <1>1, <2>2, HowOften
  <2> QED
    BY <2>1, <2>3 DEF Places
<1>3. Cardinality({n \in Carriers : \E part \in chain[n] : part[f] = b})
        = IF b \in InChains(chain, f) THEN 1 ELSE 0
  <2>1. {n \in Carriers : \E part \in chain[n] : part[f] = b} = S
    BY CarriersOf
  <2>2. \A n, m \in S : n = m
    BY <1>1 DEF Unshared
  <2>3. S = {} <=> b \notin InChains(chain, f)
    BY DEF InChains
  <2> HIDE DEF S
  <2>4. Cardinality(S) = IF S = {} THEN 0 ELSE 1
    BY <2>2, AtMostOne
  <2> QED
    BY <2>1, <2>3, <2>4
<1>4. Cardinality({b} \cap pool) = IF b \in pool THEN 1 ELSE 0
  BY InASet
<1> DEFINE h == Held(c)
           d == InChains(chain, f)
<1> HIDE DEF h, d, c
<1>5. /\ b \in pool \/ b \in held \/ b \in h \/ b \in d
      /\ b \in pool => b \notin held /\ b \notin h /\ b \notin d
      /\ b \in held => b \notin h /\ b \notin d
      /\ b \in h => b \notin d
  BY <1>1, FourPlaces DEF h, d
<1> QED
  BY <1>2, <1>3, <1>4, <1>5 DEF h, d

LEMMA MdlHasOnePlace ==
  ASSUME TypeInv, ChainInv, MdlInv, mode # "ALLOCATE", NEW b \in Buffers
  PROVE  MdlPlaces(b) = 1
<1>1. Sole(offered) /\ OneBuffer("mdl", mdlPool, Held(offered), Column(filled, "mdl"), chain)
  BY DEF MdlInv
<1>2. offered \in Seq(Memory) /\ b # None
  BY ColumnTypes, NullIsNobody
<1>3. Places(offered, b) = IF b \in Held(offered) THEN 1 ELSE 0
  BY <1>1, <1>2, HowOften
<1>4. Cardinality({b} \cap mdlPool) + (IF b \in Held(offered) THEN 1 ELSE 0)
        + Cardinality({i \in DOMAIN filled : filled[i]["mdl"] = b})
        + Cardinality({n \in Carriers : \E part \in chain[n] : part["mdl"] = b}) = 1
  BY <1>1, OneOfFour
<1> QED
  BY <1>3, <1>4 DEF MdlPlaces

LEMMA DriverMemoryHasOnePlace ==
  ASSUME TypeInv, ChainInv, DriverMemoryInv, mode = "DRIVER", NEW b \in Buffers
  PROVE  Cardinality({b} \cap driverMemory) + Users(b) = 1
<1> DEFINE nothing == {}
<1>1. OneBuffer("memory", driverMemory, nothing, Column(filled, "memory"), chain)
  BY DEF DriverMemoryInv
<1>2. b \notin nothing
  OBVIOUS
<1> HIDE DEF nothing
<1>3. Cardinality({b} \cap driverMemory) + (IF b \in nothing THEN 1 ELSE 0)
        + Cardinality({i \in DOMAIN filled : filled[i]["memory"] = b})
        + Cardinality({n \in Carriers : \E part \in chain[n] : part["memory"] = b}) = 1
  BY <1>1, OneOfFour
<1>4. /\ Cardinality({i \in DOMAIN filled : filled[i].memory = b}) = InFragments(filled, b)
      /\ InFragments(filled, b) \in Nat /\ InNbls(chain, b) \in Nat
  BY Counted
<1>5. Cardinality({n \in Carriers : \E part \in chain[n] : part.memory = b}) = InNbls(chain, b)
  <2>1. {n \in Carriers : \E part \in chain[n] : part["memory"] = b}
          = {n \in Nbls : \E part \in chain[n] : part["memory"] = b}
    BY CarriersOf
  <2> QED
    BY <2>1 DEF InNbls
<1>6. Cardinality({b} \cap driverMemory) = IF b \in driverMemory THEN 1 ELSE 0
  BY InASet
<1>7. Users(b) = InFragments(filled, b) + InNbls(chain, b)
  BY <1>4, <1>5 DEF Users
<1>8. Cardinality({b} \cap driverMemory) + 0 + InFragments(filled, b) + InNbls(chain, b) = 1
  BY <1>2, <1>3, <1>4, <1>5
<1> QED
  BY <1>4, <1>6, <1>7, <1>8

LEMMA DataBufferHasOneOwner ==
  ASSUME TypeInv, ChainInv, PoolInv, CountInv, mode = "ALLOCATE", NEW b \in Buffers
  PROVE  /\ pc # "advance" => refs[b] >= Users(b)
         /\ Places(bufferRing, b) + Places(letGo, b) <= 1
         /\ b \in free => ~WithDriver(b) /\ Users(b) = 0
         /\ b \notin leftOver =>
              /\ pc # "advance" => refs[b] = Users(b)
              /\ b \in free <=> ~WithDriver(b) /\ b \notin osOwned
              /\ b \in free => refs[b] = 0
<1>1. /\ Four(free, Held(bufferRing), Held(letGo), osOwned) /\ Sole(bufferRing) /\ Sole(letGo)
  BY DEF PoolInv
<1>2. /\ bufferRing \in Seq(Buffers) /\ letGo \in Seq(Buffers) /\ b # None
      /\ ToSet(bufferRing) = Held(bufferRing) /\ ToSet(letGo) = Held(letGo)
  BY NullIsNobody, NobodyIsNone DEF TypeInv
<1> DEFINE r == Held(bufferRing)
           l == Held(letGo)
<1>3. /\ b \in free \/ b \in r \/ b \in l \/ b \in osOwned
      /\ b \in free => b \notin r /\ b \notin l /\ b \notin osOwned
      /\ b \in r => b \notin l /\ b \notin osOwned
  BY <1>1, FourPlaces
<1>4. Places(bufferRing, b) = (IF b \in r THEN 1 ELSE 0) /\ Places(letGo, b) = (IF b \in l THEN 1 ELSE 0)
  BY <1>1, <1>2, HowOften
<1>5. /\ pc # "advance" => refs[b] >= Users(b)
      /\ b \notin leftOver => (pc # "advance" => refs[b] = Users(b))
      /\ b \in free => Users(b) = 0
      /\ b \in free /\ b \notin leftOver => refs[b] = 0
  <2> DEFINE x == InNbls(chain, b)
             y == InFragments(filled, b)
             z == IF pc = "advance" THEN 0 ELSE y
  <2>1. /\ refs[b] >= x + z
        /\ b \notin leftOver => refs[b] = x + z
        /\ b \in free => x = 0 /\ y = 0
    BY DEF CountInv
  <2>2. Cardinality({i \in DOMAIN filled : filled[i].memory = b}) = y
    BY Counted
  <2>3. Cardinality({n \in Carriers : \E part \in chain[n] : part.memory = b}) = x
    <3>1. {n \in Carriers : \E part \in chain[n] : part["memory"] = b}
            = {n \in Nbls : \E part \in chain[n] : part["memory"] = b}
      BY CarriersOf
    <3> QED
      BY <3>1 DEF InNbls
  <2>0. InFragments(filled, b) \in Nat /\ InNbls(chain, b) \in Nat
    BY Counted
  <2>4. x \in Int /\ y \in Int
    BY <2>0
  <2>5. Users(b) = y + x
    BY <2>2, <2>3 DEF Users
  <2>6. pc # "advance" => z = y
    OBVIOUS
  <2>7. b \in free => z = 0
    BY <2>1
  <2> HIDE DEF x, y, z
  <2> QED
    BY <2>1, <2>4, <2>5, <2>6, <2>7
<1>7. WithDriver(b) <=> b \in r \/ b \in l
  BY <1>2 DEF WithDriver
<1> HIDE DEF r, l
<1>8. Places(bufferRing, b) + Places(letGo, b) <= 1
  BY <1>3, <1>4
<1> QED
  BY <1>3, <1>5, <1>7, <1>8

LEMMA OneOwner ==
  ASSUME OwnersInv, DataBufferInv
  PROVE  MemoryHasOneOwner
<1>1. /\ TypeInv /\ NblInv /\ ChainInv /\ MdlInv /\ DriverMemoryInv /\ PoolInv /\ CountInv
  BY DEF OwnersInv, DataBufferInv
<1>2. \A n \in Nbls : NblPlaces(n) = 1
  BY <1>1, NblHasOnePlace
<1>3. mode # "ALLOCATE" => \A b \in Buffers : MdlPlaces(b) = 1
  BY <1>1, MdlHasOnePlace
<1>4. mode = "DRIVER" => \A b \in Buffers : Cardinality({b} \cap driverMemory) + Users(b) = 1
  BY <1>1, DriverMemoryHasOnePlace
<1>5. mode = "ALLOCATE" =>
        \A b \in Buffers :
          /\ pc # "advance" => refs[b] >= Users(b)
          /\ Places(bufferRing, b) + Places(letGo, b) <= 1
          /\ b \in free => ~WithDriver(b) /\ Users(b) = 0
          /\ b \notin leftOver =>
               /\ pc # "advance" => refs[b] = Users(b)
               /\ b \in free <=> ~WithDriver(b) /\ b \notin osOwned
               /\ b \in free => refs[b] = 0
  BY <1>1, DataBufferHasOneOwner
<1> QED
  BY <1>2, <1>3, <1>4, <1>5 DEF MemoryHasOneOwner

LEMMA StoppedQueue ==
  ASSUME OwnersInv
  PROVE  /\ readyToStop => nblPool = Nbls /\ mdlPool = Buffers
         /\ life = "stopped" /\ mode = "DRIVER" => driverMemory = Buffers
<1>1. TypeInv /\ NblInv /\ ChainInv /\ DriverMemoryInv /\ LifeInv
  BY DEF OwnersInv
<1>2. ASSUME life = "stopped", mode = "DRIVER" PROVE driverMemory = Buffers
  <2>1. nblPool = Nbls /\ filled = <<>>
    BY <1>1, <1>2 DEF LifeInv
  <2>2. Held(batch) = {} /\ UNION indicated = {} /\ returned = {} /\ discarded = {}
    BY <1>1, <2>1, NblsAllInPool
  <2>3. Carriers = {}
    <3>1. ToSet(batch) = {}
      BY <1>1, <2>2, NobodyIsNone DEF TypeInv
    <3> QED
      BY <2>2, <3>1 DEF Carriers
  <2>4. InChains(chain, "memory") = {}
    BY <1>1, <2>3 DEF ChainInv, InChains
  <2>5. Held(Column(filled, "memory")) = {}
    BY <2>1, EmptyList
  <2>6. Four(driverMemory, {}, {}, {})
    <3>1. Four(driverMemory, {}, Held(Column(filled, "memory")), InChains(chain, "memory"))
      BY <1>1, <1>2 DEF DriverMemoryInv, OneBuffer
    <3> QED
      BY <3>1, <2>4, <2>5
  <2>7. Buffers \subseteq driverMemory
    BY <2>6, FourPlaces
  <2> QED
    BY <1>1, <2>7 DEF TypeInv
<1> QED
  BY <1>1, <1>2 DEF LifeInv

LEMMA StoppedPool ==
  ASSUME OwnersInv, DataBufferInv, life = "stopped", mode = "ALLOCATE", NEW b \in Buffers \ leftOver
  PROVE  b \in free /\ refs[b] = 0
<1>1. TypeInv /\ NblInv /\ ChainInv /\ PoolInv /\ LifeInv /\ CountInv
  BY DEF OwnersInv, DataBufferInv
<1>2. nblPool = Nbls /\ filled = <<>> /\ pc = "idle"
  BY <1>1 DEF LifeInv
<1>3. refs[b] = 0
  <2>1. InNbls(chain, b) = 0 /\ InFragments(filled, b) = 0
    BY <1>1, <1>2, NothingInUse
  <2>2. refs[b] = InNbls(chain, b) + InFragments(filled, b)
    BY <1>1, <1>2 DEF CountInv
  <2> QED
    BY <2>1, <2>2
<1>4. b \notin osOwned
  <2>1. b \in osOwned => refs[b] > 0
    BY <1>1 DEF CountInv
  <2> QED
    BY <1>3, <2>1
<1>5. Held(bufferRing) = {} /\ Held(letGo) = {}
  <2>1. bufferRing = <<>> /\ letGo = <<>>
    BY <1>1, <1>2 DEF PoolInv
  <2> QED
    BY <2>1, EmptyList
<1>6. Four(free, Held(bufferRing), Held(letGo), osOwned)
  BY <1>1 DEF PoolInv
<1>7. Four(free, {}, {}, osOwned)
  BY <1>5, <1>6
<1>8. b \in free
  BY <1>4, <1>7, FourPlaces
<1> QED
  BY <1>3, <1>8

(* No NBL, MDL or memory of the driver ever has two owners or none; no data *)
(* buffer is in the pool while somebody uses it, and one of which no batch  *)
(* has left fragments in the ring is there as soon as nobody does.          *)
THEOREM ReceiveMemory == Spec => []MemoryHasOneOwner
<1>1. OwnersInv /\ DataBufferInv => MemoryHasOneOwner
  BY OneOwner
<1> QED
  BY <1>1, ReceiveDataBuffers, PTL

(* A queue that is ready to stop has all its NBLs and MDLs, as              *)
(* EcRecoverBuffers asserts, and one that has stopped has given back all    *)
(* memory, to the driver or to the pool whose destructor asserts it, but    *)
(* for data buffers of which a full batch has left fragments in the ring.   *)
THEOREM ReceiveStops == Spec => []StopFindsEverything
<1>1. OwnersInv /\ DataBufferInv => StopFindsEverything
  BY StoppedQueue, StoppedPool DEF StopFindsEverything
<1> QED
  BY <1>1, ReceiveDataBuffers, PTL

=============================================================================
