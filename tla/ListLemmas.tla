----------------------------- MODULE ListLemmas -----------------------------
(****************************************************************************)
(* Lemmas about numbers, lists and sets that the proofs about several       *)
(* components need.                                                         *)
(****************************************************************************)
EXTENDS Integers, SequencesExt, TLAPS, FiniteSetTheorems, FunctionTheorems,
        SequenceTheorems, WellFoundedInduction

-----------------------------------------------------------------------------
(* A set of numbers has a least one, so that Min and first entries exist.   *)
(* (The sets of its members up to each member are well founded by           *)
(* inclusion.)                                                              *)

LEMMA Least ==
  ASSUME NEW T \in SUBSET Nat, T # {}
  PROVE  \E x \in T : \A y \in T : x <= y
  <1>1. PICK n \in T : TRUE
    OBVIOUS
  <1>2. \A x \in T : x \in Nat
    OBVIOUS
  <1> DEFINE upTo(m) == {x \in T : x <= m}
             family == {A \in SUBSET (0 .. n) : \E m \in T : m <= n /\ A = upTo(m)}
  <1>3. ASSUME NEW m \in T, m <= n PROVE upTo(m) \in SUBSET (0 .. n)
    <2>1. ASSUME NEW x \in T, x <= m PROVE x \in 0 .. n
      <3>1. x \in Nat /\ m \in Nat /\ n \in Nat
        BY <1>2
      <3> QED BY <3>1, <2>1, <1>3
    <2> QED BY <2>1
  <1>4. family # {}
    <2>1. upTo(n) \in SUBSET (0 .. n) /\ n <= n
      BY <1>1, <1>2, <1>3
    <2>2. upTo(n) \in family
      BY <1>1, <2>1
    <2> QED BY <2>2
  <1>5. family \subseteq FiniteSubsetsOf(0 .. n)
    BY FS_Interval, FS_FiniteSubsetsOfFinite, <1>1, SMTT(30)
  <1>6. PICK A \in family : \A B \in family : <<B, A>> \notin StrictSubsetOrdering(0 .. n)
    <2> HIDE DEF family
    <2>1. IsWellFoundedOn(StrictSubsetOrdering(0 .. n), FiniteSubsetsOf(0 .. n))
      BY FS_StrictSubsetOrderingWellFounded
    <2> QED BY <1>4, <1>5, <2>1, WFMin
  <1>7. PICK m \in T : m <= n /\ A = upTo(m)
    BY <1>6
  <1>8. ASSUME NEW y \in T, y < m PROVE FALSE
    <2>1. y \in Nat /\ m \in Nat /\ n \in Nat
      BY <1>2
    <2>2. y <= n /\ y <= y /\ m <= m /\ ~ m <= y
      BY <2>1, <1>7, <1>8
    <2>3. upTo(y) \in SUBSET (0 .. n)
      BY <1>3, <2>2
    <2>4. upTo(y) \in family
      BY <2>2, <2>3
    <2>5. upTo(y) \subseteq A /\ upTo(y) # A
      <3>1. ASSUME NEW x \in T, x <= y PROVE x <= m
        <4>1. x \in Nat
          BY <1>2
        <4> QED BY <2>1, <3>1, <4>1, <1>8
      <3>2. m \in upTo(m) /\ m \notin upTo(y)
        BY <2>2
      <3> QED BY <1>7, <3>1, <3>2
    <2>6. <<upTo(y), A>> \in StrictSubsetOrdering(0 .. n)
      BY <1>6, <2>3, <2>5 DEF StrictSubsetOrdering
    <2> QED BY <1>6, <2>4, <2>6
  <1>9. ASSUME NEW y \in T PROVE m <= y
    <2>1. y \in Nat /\ m \in Nat /\ ~(y < m)
      BY <1>2, <1>8
    <2> QED BY <2>1
  <1> QED BY <1>7, <1>9

LEMMA MinIsMember ==
  ASSUME NEW T \in SUBSET Nat, T # {}
  PROVE  Min(T) \in T
  BY Least DEF Min

-----------------------------------------------------------------------------
(* Lists whose entries come and go.                                         *)

\* t is s without its entry i.
Without(t, s, i) ==
  /\ Len(s) \in Nat \ {0} /\ DOMAIN s = 1 .. Len(s) /\ i \in 1 .. Len(s)
  /\ Len(t) = Len(s) - 1 /\ DOMAIN t = 1 .. Len(s) - 1
  /\ \A j \in 1 .. Len(s) - 1 : t[j] = IF j < i THEN s[j] ELSE s[j + 1]

LEMMA RemoveAtProperties ==
  ASSUME NEW S, NEW s \in Seq(S), NEW i \in DOMAIN s
  PROVE  RemoveAt(s, i) \in Seq(S) /\ Without(RemoveAt(s, i), s, i)
  <1> DEFINE t == RemoveAt(s, i)
  <1> DEFINE u == SubSeq(s, 1, i - 1)
             v == SubSeq(s, i + 1, Len(s))
  <1>0. Len(s) \in Nat \ {0} /\ DOMAIN s = 1 .. Len(s) /\ i \in 1 .. Len(s)
    BY LenProperties
  <1>1. /\ u \in Seq(S) /\ Len(u) = i - 1
        /\ \A j \in 1 .. i - 1 : u[j] = s[j]
    <2>1. \A j \in 1 .. i - 1 : s[j] \in S
      BY <1>0, ElementOfSeq
    <2>2. /\ u \in Seq(S) /\ Len(u) = (IF 1 <= i - 1 THEN i - 1 - 1 + 1 ELSE 0)
          /\ \A j \in 1 .. i - 1 - 1 + 1 : u[j] = s[1 + j - 1]
      BY <1>0, <2>1, SubSeqProperties
    <2> HIDE DEF u
    <2> QED BY <1>0, <2>2
  <1>2. /\ v \in Seq(S) /\ Len(v) = Len(s) - i
        /\ \A j \in 1 .. Len(s) - i : v[j] = s[i + j]
    <2>1. \A j \in i + 1 .. Len(s) : s[j] \in S
      BY <1>0, ElementOfSeq
    <2>2. /\ v \in Seq(S)
          /\ Len(v) = (IF i + 1 <= Len(s) THEN Len(s) - (i + 1) + 1 ELSE 0)
          /\ \A j \in 1 .. Len(s) - (i + 1) + 1 : v[j] = s[i + 1 + j - 1]
      BY <1>0, <2>1, SubSeqProperties
    <2> HIDE DEF v
    <2>3. Len(v) = Len(s) - i
      <3>1. Len(v) = IF i + 1 <= Len(s) THEN Len(s) - (i + 1) + 1 ELSE 0
        BY <2>2
      <3> QED BY <1>0, <3>1
    <2>4. ASSUME NEW j \in 1 .. Len(s) - i PROVE v[j] = s[i + j]
      <3>1. j \in 1 .. Len(s) - (i + 1) + 1 /\ i + 1 + j - 1 = i + j
        BY <1>0
      <3> QED BY <2>2, <3>1
    <2> QED BY <2>2, <2>3, <2>4
  <1> HIDE DEF u, v
  <1>3. /\ u \o v \in Seq(S) /\ Len(u \o v) = Len(u) + Len(v)
        /\ \A j \in 1 .. Len(u) + Len(v) :
             (u \o v)[j] = IF j <= Len(u) THEN u[j] ELSE v[j - Len(u)]
    BY <1>1, <1>2, ConcatProperties
  <1>4. t = u \o v
    BY DEF RemoveAt, t, u, v
  <1> HIDE DEF t
  <1>5. t \in Seq(S) /\ Len(t) = Len(s) - 1
    <2>1. Len(u) + Len(v) = Len(s) - 1
      BY <1>0, <1>1, <1>2
    <2> QED BY <1>3, <1>4, <2>1
  <1>6. ASSUME NEW j \in 1 .. Len(s) - 1
        PROVE  t[j] = IF j < i THEN s[j] ELSE s[j + 1]
    <2>1. CASE j < i
      BY <1>0, <1>1, <1>2, <1>3, <1>4, <2>1
    <2>2. CASE ~(j < i)
      <3>1. j \in 1 .. Len(u) + Len(v) /\ ~(j <= Len(u))
        BY <1>0, <1>1, <1>2, <2>2
      <3>2. t[j] = v[j - (i - 1)]
        BY <1>1, <1>3, <1>4, <3>1
      <3>3. j - (i - 1) \in 1 .. Len(s) - i /\ i + (j - (i - 1)) = j + 1
        BY <1>0, <2>2
      <3>4. v[j - (i - 1)] = s[i + (j - (i - 1))]
        BY <1>2, <3>3
      <3> QED BY <2>2, <3>2, <3>3, <3>4
    <2> QED BY <2>1, <2>2
  <1> QED BY <1>0, <1>5, <1>6, LenProperties DEF Without, t

LEMMA PrependProperties ==
  ASSUME NEW S, NEW s \in Seq(S), NEW e \in S
  PROVE  /\ <<e>> \o s \in Seq(S) /\ Without(s, <<e>> \o s, 1)
         /\ (<<e>> \o s)[1] = e
  <1> DEFINE t == <<e>> \o s
  <1>1. <<e>> \in Seq(S) /\ Len(<<e>>) = 1 /\ <<e>>[1] = e /\ Len(s) \in Nat
    BY LenProperties
  <1>2. /\ t \in Seq(S) /\ Len(t) = 1 + Len(s)
        /\ \A i \in 1 .. 1 + Len(s) : t[i] = IF i <= 1 THEN e ELSE s[i - 1]
    <2>1. /\ t \in Seq(S) /\ Len(t) = Len(<<e>>) + Len(s)
          /\ \A i \in 1 .. Len(<<e>>) + Len(s) :
               t[i] = IF i <= Len(<<e>>) THEN <<e>>[i] ELSE s[i - Len(<<e>>)]
      BY <1>1, ConcatProperties
    <2> HIDE DEF t
    <2> QED BY <1>1, <2>1
  <1> HIDE DEF t
  <1>3. DOMAIN t = 1 .. Len(t) /\ DOMAIN s = 1 .. Len(s)
    BY <1>2, LenProperties
  <1>4. t[1] = e
    BY <1>1, <1>2
  <1>5. ASSUME NEW j \in 1 .. Len(s) PROVE s[j] = t[j + 1]
    <2>1. j + 1 \in 1 .. 1 + Len(s) /\ ~ j + 1 <= 1 /\ j + 1 - 1 = j
      BY <1>1
    <2> QED BY <1>2, <2>1
  <1>6. Without(s, t, 1)
    BY <1>1, <1>2, <1>3, <1>5 DEF Without
  <1> QED BY <1>2, <1>4, <1>6 DEF t

-----------------------------------------------------------------------------
(***************************************************************************)
(* Lists without duplicates.                                               *)
(***************************************************************************)
LEMMA InRange ==
  ASSUME NEW s, NEW e
  PROVE  e \in Range(s) <=> \E i \in DOMAIN s : s[i] = e
  BY DEF Range

LEMMA AppendRange ==
  ASSUME NEW S, NEW s \in Seq(S), NEW e \in S
  PROVE  /\ Range(Append(s, e)) = Range(s) \cup {e}
         /\ IsInjective(s) /\ e \notin Range(s) => IsInjective(Append(s, e))
  <1> DEFINE t == Append(s, e)
  <1>1. /\ DOMAIN s = 1 .. Len(s) /\ Len(s) \in Nat /\ DOMAIN t = 1 .. Len(s) + 1
        /\ \A i \in 1 .. Len(s) : t[i] = s[i]
        /\ t[Len(s) + 1] = e
    BY AppendProperties, LenProperties
  <1> HIDE DEF t
  <1>2. Range(t) = Range(s) \cup {e}
    BY <1>1 DEF Range
  <1>3. IsInjective(s) /\ e \notin Range(s) => IsInjective(t)
    BY <1>1 DEF IsInjective, Range
  <1> QED BY <1>2, <1>3 DEF t

LEMMA TailRange ==
  ASSUME NEW S, NEW s \in Seq(S), s # <<>>
  PROVE  /\ Range(s) = Range(Tail(s)) \cup {Head(s)}
         /\ IsInjective(s) => /\ Head(s) \notin Range(Tail(s))
                              /\ IsInjective(Tail(s))
  <1> DEFINE t == Tail(s)
  <1>1. /\ DOMAIN s = 1 .. Len(s) /\ Len(s) \in Nat \ {0} /\ Head(s) = s[1]
        /\ DOMAIN t = 1 .. Len(s) - 1
        /\ \A i \in 1 .. Len(s) - 1 : t[i] = s[i + 1]
    BY HeadTailProperties, LenProperties, EmptySeq
  <1> HIDE DEF t
  <1>2. ASSUME NEW x PROVE x \in Range(s) <=> x \in Range(t) \/ x = s[1]
    <2>1. ASSUME NEW i \in 1 .. Len(s)
          PROVE  i = 1 \/ (i - 1 \in 1 .. Len(s) - 1 /\ s[i] = t[i - 1])
      BY <1>1
    <2>2. \A i \in 1 .. Len(s) - 1 : i + 1 \in 1 .. Len(s)
      BY <1>1
    <2>3. x \in Range(s) => x \in Range(t) \/ x = s[1]
      BY <1>1, <2>1, InRange
    <2>4. x \in Range(t) => x \in Range(s)
      BY <1>1, <2>2, InRange
    <2>5. s[1] \in Range(s)
      BY <1>1, InRange
    <2> QED BY <2>3, <2>4, <2>5
  <1>3. ASSUME IsInjective(s) PROVE s[1] \notin Range(t) /\ IsInjective(t)
    <2>1. \A i \in 1 .. Len(s) - 1 : i + 1 \in 1 .. Len(s) /\ i + 1 # 1
      BY <1>1
    <2>2. s[1] \notin Range(t)
      <3>1. ASSUME NEW i \in DOMAIN t PROVE t[i] # s[1]
        BY <1>1, <1>3, <2>1 DEF IsInjective
      <3> QED BY <3>1, InRange
    <2>3. IsInjective(t)
      BY <1>1, <1>3, <2>1, SMTT(30) DEF IsInjective
    <2> QED BY <2>2, <2>3
  <1>4. Range(s) = Range(t) \cup {s[1]}
    BY <1>2
  <1> QED BY <1>1, <1>3, <1>4 DEF t

LEMMA InsertAtRange ==
  ASSUME NEW S, NEW s \in Seq(S), NEW e \in S, NEW i \in 1 .. Len(s) + 1
  PROVE  /\ Range(InsertAt(s, i, e)) = Range(s) \cup {e}
         /\ IsInjective(s) /\ e \notin Range(s) => IsInjective(InsertAt(s, i, e))
  <1> DEFINE t == InsertAt(s, i, e)
  <1>1. /\ Len(s) \in Nat /\ DOMAIN s = 1 .. Len(s) /\ DOMAIN t = 1 .. Len(s) + 1
        /\ \A j \in 1 .. Len(s) + 1 :
             t[j] = IF j < i THEN s[j] ELSE IF j = i THEN e ELSE s[j - 1]
    <2> DEFINE u == SubSeq(s, 1, i - 1)
               v == SubSeq(s, i, Len(s))
               one == <<e>>
               w == u \o one
    <2>0. Len(s) \in Nat /\ DOMAIN s = 1 .. Len(s) /\ i \in Nat /\ 1 <= i /\ i <= Len(s) + 1
      BY LenProperties
    <2>1. /\ u \in Seq(S) /\ Len(u) = i - 1
          /\ \A j \in 1 .. i - 1 : u[j] = s[j]
      <3>1. \A j \in 1 .. i - 1 : s[j] \in S
        BY <2>0, ElementOfSeq
      <3>2. /\ u \in Seq(S) /\ Len(u) = (IF 1 <= i - 1 THEN i - 1 - 1 + 1 ELSE 0)
            /\ \A j \in 1 .. i - 1 - 1 + 1 : u[j] = s[1 + j - 1]
        BY <2>0, <3>1, SubSeqProperties
      <3> HIDE DEF u
      <3> QED BY <2>0, <3>2
    <2>2. /\ v \in Seq(S) /\ Len(v) = Len(s) - i + 1
          /\ \A j \in 1 .. Len(s) - i + 1 : v[j] = s[i + j - 1]
      <3>1. \A j \in i .. Len(s) : s[j] \in S
        BY <2>0, ElementOfSeq
      <3>2. /\ v \in Seq(S) /\ Len(v) = (IF i <= Len(s) THEN Len(s) - i + 1 ELSE 0)
            /\ \A j \in 1 .. Len(s) - i + 1 : v[j] = s[i + j - 1]
        BY <2>0, <3>1, SubSeqProperties
      <3> HIDE DEF v
      <3> QED BY <2>0, <3>2
    <2>3. one \in Seq(S) /\ Len(one) = 1 /\ one[1] = e
      OBVIOUS
    <2> HIDE DEF u, v, one
    <2>4. /\ w \in Seq(S) /\ Len(w) = i
          /\ \A j \in 1 .. i : w[j] = IF j < i THEN s[j] ELSE e
      <3>1. /\ w \in Seq(S) /\ Len(w) = Len(u) + Len(one)
            /\ \A j \in 1 .. Len(u) + Len(one) :
                 w[j] = IF j <= Len(u) THEN u[j] ELSE one[j - Len(u)]
        BY <2>1, <2>3, ConcatProperties
      <3> HIDE DEF w
      <3> QED BY <2>0, <2>1, <2>3, <3>1, SMTT(30)
    <2> HIDE DEF w
    <2>5. /\ w \o v \in Seq(S) /\ Len(w \o v) = Len(w) + Len(v)
          /\ \A j \in 1 .. Len(w) + Len(v) :
               (w \o v)[j] = IF j <= Len(w) THEN w[j] ELSE v[j - Len(w)]
      BY <2>2, <2>4, ConcatProperties
    <2>6. t = w \o v
      BY DEF InsertAt, t, u, v, w, one
    <2> HIDE DEF t
    <2>7. t \in Seq(S) /\ Len(t) = Len(s) + 1
      BY <2>0, <2>2, <2>4, <2>5, <2>6
    <2>8. ASSUME NEW j \in 1 .. Len(s) + 1
          PROVE  t[j] = IF j < i THEN s[j] ELSE IF j = i THEN e ELSE s[j - 1]
      <3>1. CASE j <= i
        BY <2>0, <2>2, <2>4, <2>5, <2>6, <3>1
      <3>2. CASE j > i
        <4>1. t[j] = v[j - i] /\ j - i \in 1 .. Len(s) - i + 1
          BY <2>0, <2>2, <2>4, <2>5, <2>6, <3>2
        <4> QED BY <2>0, <2>2, <3>2, <4>1
      <3> QED BY <2>0, <3>1, <3>2
    <2> QED BY <2>0, <2>7, <2>8, LenProperties
  <1> HIDE DEF t
  <1>2. ASSUME NEW x PROVE x \in Range(t) <=> x \in Range(s) \/ x = e
    <2>1. ASSUME NEW j \in DOMAIN s
          PROVE  \E k \in DOMAIN t : t[k] = s[j]
      <3>1. CASE j < i
        BY <1>1, <3>1
      <3>2. CASE ~(j < i)
        <4>1. j + 1 \in DOMAIN t /\ t[j + 1] = s[j]
          BY <1>1, <3>2
        <4> QED BY <4>1
      <3> QED BY <3>1, <3>2
    <2>2. ASSUME NEW j \in DOMAIN t, j # i
          PROVE  \E k \in DOMAIN s : s[k] = t[j]
      <3>1. CASE j < i
        BY <1>1, <3>1
      <3>2. CASE ~(j < i)
        <4>1. j - 1 \in DOMAIN s /\ t[j] = s[j - 1]
          BY <1>1, <2>2, <3>2
        <4> QED BY <4>1
      <3> QED BY <3>1, <3>2
    <2>3. i \in DOMAIN t /\ t[i] = e
      BY <1>1
    <2> QED BY <2>1, <2>2, <2>3, InRange
  <1>3. ASSUME IsInjective(s), e \notin Range(s) PROVE IsInjective(t)
    <2>1. \A j \in DOMAIN s : s[j] # e
      BY <1>3, InRange
    <2>2. ASSUME NEW j \in DOMAIN t, NEW k \in DOMAIN t, j < k PROVE t[j] # t[k]
      <3> DEFINE from(l) == IF l < i THEN l ELSE l - 1
      <3>1. ASSUME NEW l \in DOMAIN t, l # i
            PROVE  from(l) \in DOMAIN s /\ t[l] = s[from(l)]
        BY <1>1, <3>1
      <3>2. CASE j = i \/ k = i
        <4>1. t[i] = e
          BY <1>1
        <4>2. \A l \in DOMAIN t : l # i => t[l] # e
          BY <2>1, <3>1
        <4> QED BY <2>2, <3>2, <4>1, <4>2
      <3>3. CASE j # i /\ k # i
        <4>1. from(j) # from(k)
          BY <1>1, <2>2, <3>3
        <4> HIDE DEF from
        <4> QED BY <1>3, <3>1, <3>3, <4>1 DEF IsInjective
      <3> QED BY <3>2, <3>3
    <2>3. \A j, k \in DOMAIN t : j < k \/ k < j \/ j = k
      BY <1>1
    <2> QED BY <2>2, <2>3 DEF IsInjective
  <1>4. Range(t) = Range(s) \cup {e}
    BY <1>2
  <1> QED BY <1>3, <1>4 DEF t

LEMMA RemoveAtRange ==
  ASSUME NEW S, NEW s \in Seq(S), NEW i \in DOMAIN s, IsInjective(s)
  PROVE  /\ Range(RemoveAt(s, i)) = Range(s) \ {s[i]}
         /\ IsInjective(RemoveAt(s, i))
  <1> DEFINE t == RemoveAt(s, i)
  <1>1. /\ Len(s) \in Nat \ {0} /\ DOMAIN s = 1 .. Len(s) /\ i \in 1 .. Len(s)
        /\ DOMAIN t = 1 .. Len(s) - 1
        /\ \A j \in 1 .. Len(s) - 1 : t[j] = IF j < i THEN s[j] ELSE s[j + 1]
    BY RemoveAtProperties DEF Without
  <1> HIDE DEF t
  <1>2. ASSUME NEW x PROVE x \in Range(t) <=> x \in Range(s) /\ x # s[i]
    <2>1. ASSUME NEW j \in DOMAIN t
          PROVE  t[j] # s[i] /\ \E k \in DOMAIN s : s[k] = t[j]
      <3>1. CASE j < i
        BY <1>1, <3>1 DEF IsInjective
      <3>2. CASE ~(j < i)
        <4>1. j + 1 \in DOMAIN s /\ j + 1 # i /\ t[j] = s[j + 1]
          BY <1>1, <3>2
        <4> QED BY <4>1 DEF IsInjective
      <3> QED BY <3>1, <3>2
    <2>2. ASSUME NEW j \in DOMAIN s, j # i
          PROVE  \E k \in DOMAIN t : t[k] = s[j]
      <3>1. CASE j < i
        BY <1>1, <3>1
      <3>2. CASE ~(j < i)
        <4>1. j - 1 \in DOMAIN t /\ t[j - 1] = s[j]
          BY <1>1, <2>2, <3>2
        <4> QED BY <4>1
      <3> QED BY <3>1, <3>2
    <2> QED BY <2>1, <2>2, InRange
  <1>3. IsInjective(t)
    <2>1. ASSUME NEW j \in DOMAIN t, NEW k \in DOMAIN t, j < k PROVE t[j] # t[k]
      <3> DEFINE from(l) == IF l < i THEN l ELSE l + 1
      <3>1. /\ from(j) \in DOMAIN s /\ from(k) \in DOMAIN s /\ from(j) # from(k)
            /\ t[j] = s[from(j)] /\ t[k] = s[from(k)]
        BY <1>1, <2>1
      <3> QED BY <3>1 DEF IsInjective
    <2>2. \A j, k \in DOMAIN t : j < k \/ k < j \/ j = k
      BY <1>1
    <2> QED BY <2>1, <2>2 DEF IsInjective
  <1>4. Range(t) = Range(s) \ {s[i]}
    BY <1>2
  <1> QED BY <1>3, <1>4 DEF t

-----------------------------------------------------------------------------
(***************************************************************************)
(* Who is where: things that are in one place each, and how many of a set  *)
(* of at most one there are.                                               *)
(***************************************************************************)
\* Every member of S is in exactly one place of K.
Placed(at, K, S) == \A x \in S : \E k \in K : \A j \in K : x \in at[j] <=> j = k

\* Some move from one place to another.
LEMMA Relocated ==
  ASSUME NEW K, NEW S, NEW at, NEW after, NEW from \in K, NEW to \in K, from # to, NEW X,
         Placed(at, K, S), X \subseteq at[from],
         after[from] = at[from] \ X, after[to] = at[to] \cup X,
         \A j \in K \ {from, to} : after[j] = at[j]
  PROVE  Placed(after, K, S)
<1> SUFFICES ASSUME NEW x \in S PROVE \E k \in K : \A j \in K : x \in after[j] <=> j = k
  BY DEF Placed
<1>1. PICK k \in K : \A j \in K : x \in at[j] <=> j = k
  BY DEF Placed
<1>2. CASE x \in X
  <2>1. k = from
    BY <1>1, <1>2
  <2>2. \A j \in K : x \in after[j] <=> j = to
    BY <1>1, <1>2, <2>1
  <2> QED
    BY <2>2
<1>3. CASE x \notin X
  <2>1. \A j \in K : x \in after[j] <=> j = k
    BY <1>1, <1>3
  <2> QED
    BY <2>1
<1> QED
  BY <1>2, <1>3

\* The same places.
LEMMA Stays ==
  ASSUME NEW K, NEW S, NEW at, NEW after, Placed(at, K, S), \A j \in K : after[j] = at[j]
  PROVE  Placed(after, K, S)
  BY DEF Placed

\* Who is in one place is in no other.
LEMMA Apart ==
  ASSUME NEW K, NEW S, NEW at, Placed(at, K, S), NEW i \in K, NEW j \in K, i # j, NEW x \in S
  PROVE  x \notin at[i] \/ x \notin at[j]
  BY DEF Placed

\* If one place has all, the others are empty.
LEMMA AllInOne ==
  ASSUME NEW K, NEW S, NEW at, Placed(at, K, S), NEW k \in K, S \subseteq at[k],
         NEW j \in K, j # k, at[j] \subseteq S
  PROVE  at[j] = {}
  BY Apart

\* If the other places are empty, one has all.
LEMMA OneHasAll ==
  ASSUME NEW K, NEW S, NEW at, Placed(at, K, S), NEW k \in K, \A j \in K \ {k} : at[j] = {}
  PROVE  S \subseteq at[k]
  BY DEF Placed

\* How often something is in a set.
LEMMA InASet == ASSUME NEW x, NEW S PROVE Cardinality({x} \cap S) = IF x \in S THEN 1 ELSE 0
<1>1. CASE x \in S
  <2>1. {x} \cap S = {x}
    BY <1>1
  <2> QED
    BY <2>1, <1>1, FS_Singleton
<1>2. CASE x \notin S
  <2>1. {x} \cap S = {}
    BY <1>2
  <2> QED
    BY <2>1, <1>2, FS_EmptySet
<1> QED
  BY <1>1, <1>2

LEMMA AtMostOne ==
  ASSUME NEW S, \A x, y \in S : x = y
  PROVE  Cardinality(S) = IF S = {} THEN 0 ELSE 1
<1>1. CASE S = {}
  BY <1>1, FS_EmptySet
<1>2. CASE S # {}
  <2>1. PICK x \in S : TRUE
    BY <1>2
  <2>2. S = {x}
    BY <2>1
  <2> QED
    BY <1>2, <2>2, FS_Singleton
<1> QED
  BY <1>1, <1>2
=============================================================================
