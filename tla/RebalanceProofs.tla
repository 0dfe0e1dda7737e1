--------------------------- MODULE RebalanceProofs --------------------------
(***************************************************************************)
(* Proofs about replication between several nodes, for any finite number   *)
(* of nodes and files, any sizes and quotas, and any number of messages,   *)
(* downloads and rebalancings.                                             *)
(***************************************************************************)
EXTENDS Rebalance, RegistryProofs, FiniteSetTheorems, TLAPS

-----------------------------------------------------------------------------
(* Numbers, bags and sizes *)

LEMMA LeastNumber ==
  ASSUME NEW T \in SUBSET Nat, T # {}
  PROVE  \E m \in T : \A k \in T : m <= k
<1> DEFINE R == OpToRel(<, Nat)
<1>1. \A k, m \in Nat : k < m => <<k, m>> \in R
  BY DEF OpToRel
<1>2. IsWellFoundedOn(R, Nat)
  BY NatLessThanWellFounded
<1> HIDE DEF R
<1>3. PICK m \in T : \A k \in T : ~(<<k, m>> \in R)
  BY <1>2, WFMin
<1>4. \A k \in T : m <= k
  <2> SUFFICES ASSUME NEW k \in T PROVE m <= k
    OBVIOUS
  <2>1. k \in Nat /\ m \in Nat /\ ~(k < m)
    BY <1>1, <1>3
  <2> QED BY <2>1
<1> QED BY <1>4

\* Of numbers below a bound there is a greatest.
LEMMA GreatestNumber ==
  ASSUME NEW T \in SUBSET Nat, T # {}, NEW b \in Nat, \A k \in T : k <= b
  PROVE  \E m \in T : \A k \in T : k <= m
<1> DEFINE U == {b - k : k \in T}
<1>1. U \in SUBSET Nat /\ U # {}
  <2>1. \A k \in T : b - k \in Nat
    OBVIOUS
  <2> QED BY <2>1
<1>2. PICK u \in U : \A v \in U : u <= v
  <2> HIDE DEF U
  <2> QED BY <1>1, LeastNumber
<1>3. PICK m \in T : u = b - m
  OBVIOUS
<1>4. \A k \in T : u <= b - k
  BY <1>2
<1> QED BY <1>3, <1>4

\* A finite set of numbers is below one of them.
LEMMA FiniteHasGreatest ==
  ASSUME NEW T \in SUBSET Nat, IsFiniteSet(T), T # {}
  PROVE  \E m \in T : \A k \in T : k <= m
<1> DEFINE rest(t) == {k \in T : t < k}
           F == {rest(t) : t \in T}
<1>1. F \subseteq FiniteSubsetsOf(Nat) /\ F # {}
  <2>1. \A t \in T : rest(t) \in SUBSET T
    OBVIOUS
  <2>2. \A t \in T : IsFiniteSet(rest(t))
    BY <2>1, FS_Subset
  <2> QED BY <2>2 DEF FiniteSubsetsOf
<1>2. PICK S \in F : \A U \in F : ~(<<U, S>> \in StrictSubsetOrdering(Nat))
  <2> HIDE DEF F
  <2> QED BY <1>1, FS_StrictSubsetOrderingWellFounded, WFMin
<1>3. PICK m \in T : S = rest(m)
  OBVIOUS
<1>4. ASSUME NEW k \in T, m < k PROVE FALSE
  <2>1. /\ \A j \in T : k < j => m < j
        /\ ~(k < k)
    <3>1. k \in Nat /\ m \in Nat /\ \A j \in T : j \in Nat
      OBVIOUS
    <3> QED BY <3>1, <1>4
  <2>2. rest(k) \subseteq rest(m) /\ k \in rest(m) /\ k \notin rest(k)
    BY <1>4, <2>1, Zenon
  <2>3. <<rest(k), S>> \in StrictSubsetOrdering(Nat)
    BY <2>2, <1>3 DEF StrictSubsetOrdering
  <2> QED BY <1>2, <2>3
<1> QED BY <1>4

LEMMA MaxOfTwo ==
  ASSUME NEW a \in Int, NEW b \in Int
  PROVE  Max({a, b}) = IF a >= b THEN a ELSE b
<1>1. \E x \in {a, b} : \A y \in {a, b} : x >= y
  OBVIOUS
<1>2. Max({a, b}) \in {a, b} /\ \A y \in {a, b} : Max({a, b}) >= y
  BY <1>1 DEF Max
<1> QED BY <1>2

LEMMA MinOfTwo ==
  ASSUME NEW a \in Int, NEW b \in Int
  PROVE  Min({a, b}) = IF a <= b THEN a ELSE b
<1>1. \E x \in {a, b} : \A y \in {a, b} : x <= y
  OBVIOUS
<1>2. Min({a, b}) \in {a, b} /\ \A y \in {a, b} : Min({a, b}) <= y
  BY <1>1 DEF Min
<1> QED BY <1>2

LEMMA BagOfSet == ASSUME NEW S PROVE IsABag(SetToBag(S)) /\ BagToSet(SetToBag(S)) = S
  BY DEF IsABag, SetToBag, BagToSet

LEMMA EmptyIsABag == IsABag(EmptyBag) /\ BagToSet(EmptyBag) = {}
  BY BagOfSet DEF EmptyBag

LEMMA BagPlus ==
  ASSUME NEW A, NEW B, IsABag(A), IsABag(B)
  PROVE  IsABag(A (+) B) /\ BagToSet(A (+) B) = BagToSet(A) \cup BagToSet(B)
<1>1. \A e \in DOMAIN A : A[e] \in Nat /\ A[e] > 0
  BY DEF IsABag
<1>2. \A e \in DOMAIN B : B[e] \in Nat /\ B[e] > 0
  BY DEF IsABag
<1> QED BY <1>1, <1>2 DEF IsABag, BagToSet, (+)

LEMMA BagMinus ==
  ASSUME NEW A, NEW B, IsABag(A), IsABag(B)
  PROVE  IsABag(A (-) B) /\ BagToSet(A (-) B) \subseteq BagToSet(A)
<1>1. \A e \in DOMAIN A : A[e] \in Nat /\ A[e] > 0
  BY DEF IsABag
<1>2. \A e \in DOMAIN B : B[e] \in Nat /\ B[e] > 0
  BY DEF IsABag
<1> QED BY <1>1, <1>2 DEF IsABag, BagToSet, (-)

\* Finitely many things, each so many times, are finitely many.
LEMMA CopiesAreFinite ==
  ASSUME NEW S, IsFiniteSet(S), NEW g, \A x \in S : g[x] \in Nat
  PROVE  /\ IsFiniteSet(UNION {{x} \X (1 .. g[x]) : x \in S})
         /\ \A x \in S : Cardinality({x} \X (1 .. g[x])) = g[x]
<1> DEFINE h == [x \in S |-> {x} \X (1 .. g[x])]
           T == {h[x] : x \in S}
<1>1. \A x \in S : IsFiniteSet(h[x]) /\ Cardinality(h[x]) = g[x]
  <2> SUFFICES ASSUME NEW x \in S PROVE IsFiniteSet(h[x]) /\ Cardinality(h[x]) = g[x]
    OBVIOUS
  <2>0. \A c \in Nat : IsFiniteSet(1 .. c) /\ Cardinality(1 .. c) = c
    BY FS_Interval
  <2>1. g[x] \in Nat /\ IsFiniteSet(1 .. g[x]) /\ Cardinality(1 .. g[x]) = g[x]
    BY <2>0
  <2>2. IsFiniteSet({x}) /\ Cardinality({x}) = 1
    BY FS_Singleton
  <2>3. /\ IsFiniteSet({x} \X (1 .. g[x]))
        /\ Cardinality({x} \X (1 .. g[x])) = Cardinality({x}) * Cardinality(1 .. g[x])
    BY <2>1, <2>2, FS_Product
  <2> QED BY <2>1, <2>2, <2>3
<1>2. h \in Surjection(S, T)
  BY DEF Surjection
<1>3. IsFiniteSet(T) /\ \A X \in T : IsFiniteSet(X)
  BY <1>1, <1>2, FS_Surjection
<1>4. T = {{x} \X (1 .. g[x]) : x \in S}
  OBVIOUS
<1>5. IsFiniteSet(UNION T)
  BY <1>3, FS_UNION
<1> QED BY <1>1, <1>4, <1>5

LEMMA TotalFacts ==
  /\ \A S \in SUBSET File : Total(S) \in Nat
  /\ \A S \in SUBSET File : \A R \in SUBSET S : Total(R) <= Total(S)
  /\ \A S \in SUBSET File : S # {} => Total(S) > 0
  /\ Total({}) = 0
<1>1. \A S \in SUBSET File : IsFiniteSet(Bytes(S))
  <2> SUFFICES ASSUME NEW S \in SUBSET File PROVE IsFiniteSet(Bytes(S))
    OBVIOUS
  <2>1. IsFiniteSet(S) /\ \A f \in S : Size[f] \in Nat
    BY FS_Subset, ReplicationAssumption DEF ReplicationAssumption
  <2> QED BY <2>1, CopiesAreFinite DEF Bytes
<1>2. \A S \in SUBSET File : \A R \in SUBSET S : Bytes(R) \subseteq Bytes(S)
  BY DEF Bytes
<1>3. \A S \in SUBSET File : Total(S) \in Nat
  BY <1>1, FS_CardinalityType DEF Total
<1>4. \A S \in SUBSET File : \A R \in SUBSET S : Total(R) <= Total(S)
  BY <1>1, <1>2, FS_Subset DEF Total
<1>5. \A S \in SUBSET File : S # {} => Total(S) > 0
  <2> SUFFICES ASSUME NEW S \in SUBSET File, NEW f \in S PROVE Total(S) > 0
    OBVIOUS
  <2>1. Size[f] \in Nat \ {0}
    BY ReplicationAssumption DEF ReplicationAssumption
  <2>2. <<f, 1>> \in Bytes(S)
    BY <2>1 DEF Bytes
  <2>3. Total(S) # 0
    BY <2>2, <1>1, FS_EmptySet DEF Total
  <2> QED BY <2>3, <1>3
<1>6. Total({}) = 0
  BY FS_EmptySet DEF Total, Bytes
<1> QED BY <1>3, <1>4, <1>5, <1>6

\* The middle of some numbers is a number.
LEMMA MedianIsNumber ==
  ASSUME NEW b, IsABag(b), IsFiniteSet(BagToSet(b)), BagToSet(b) \subseteq Nat, BagToSet(b) # {}
  PROVE  Median(b) \in Int
<1> DEFINE D == BagToSet(b)  top == Max(D)  n == UpTo(b, top)
<1>1. top \in D /\ \A v \in D : v <= top
  <2>1. \E m \in D : \A v \in D : m >= v
    BY FiniteHasGreatest
  <2> QED BY <2>1 DEF Max
<1>2. {w \in D : w <= top} = D
  BY <1>1
<1>3. \A v \in D : b[v] \in Nat \ {0}
  BY DEF IsABag, BagToSet
<1> DEFINE copies == UNION {{u} \X (1 .. b[u]) : u \in D}
<1>4. IsFiniteSet(copies) /\ n = Cardinality(copies)
  BY <1>2, <1>3, CopiesAreFinite DEF UpTo
<1>5. n \in Nat \ {0}
  <2>1. <<top, 1>> \in copies
    BY <1>1, <1>3
  <2> HIDE DEF copies
  <2> QED BY <1>4, <2>1, FS_CardinalityType, FS_EmptySet
<1> HIDE DEF n
<1>6. ASSUME NEW k \in Nat, k <= n PROVE Kth(b, k) \in Int
  <2> DEFINE K == {v \in D : UpTo(b, v) >= k}
  <2>1. K \in SUBSET Nat /\ top \in K
    BY <1>1, <1>5, <1>6 DEF n
  <2>2. \E m \in K : \A j \in K : m <= j
    <3> HIDE DEF K
    <3> QED BY <2>1, LeastNumber
  <2>3. Min(K) \in K
    BY <2>2 DEF Min
  <2> QED BY <2>1, <2>3 DEF Kth
<1>7. /\ (n + 1) \div 2 \in Nat /\ (n + 1) \div 2 <= n
      /\ n \div 2 + 1 \in Nat /\ n \div 2 + 1 <= n
  BY <1>5
<1>8. Kth(b, (n + 1) \div 2) \in Int /\ Kth(b, n \div 2 + 1) \in Int
  BY <1>6, <1>7
<1> QED BY <1>8 DEF Median, n

\* The limits of a target, but that of half the peers.
TargetLimit == Max({TargetMax, (Cardinality(Node) - 1) \div 2})

LEMMA ClampInLimits ==
  ASSUME NEW v \in Int
  PROVE  Clamp(v) \in TargetMin .. TargetMax
<1> USE ReplicationAssumption DEF ReplicationAssumption
<1>1. Min({v, TargetMax}) = IF v <= TargetMax THEN v ELSE TargetMax
  BY MinOfTwo
<1>2. Min({v, TargetMax}) \in Int
  BY <1>1
<1>3. \A w \in Int : Max({TargetMin, w}) = IF TargetMin >= w THEN TargetMin ELSE w
  BY MaxOfTwo
<1>4. Clamp(v) = IF TargetMin >= Min({v, TargetMax}) THEN TargetMin ELSE Min({v, TargetMax})
  BY <1>2, <1>3 DEF Clamp
<1> QED BY <1>1, <1>4

LEMMA TargetInLimits ==
  ASSUME NEW n \in Node, NEW r
  PROVE  /\ TargetMin .. TargetMax \subseteq TargetMin .. TargetLimit
         /\ TargetMin \in TargetMin .. TargetLimit
         /\ NetworkTarget(r, Cardinality(Node) - 1) \in TargetMin .. TargetLimit
<1> DEFINE others == Cardinality(Node) - 1  total == Total(Known(r))
<1>1. others \in Nat
  <2>1. Cardinality(Node) \in Nat /\ Cardinality(Node) # 0
    BY FS_CardinalityType, FS_EmptySet, RebalanceAssumption DEF RebalanceAssumption
  <2> QED BY <2>1
<1> HIDE DEF others
<1>2. /\ TargetMin \in Nat /\ TargetMax \in Nat /\ TargetMin <= TargetMax
      /\ PeerStorage \in Nat
  BY ReplicationAssumption DEF ReplicationAssumption
<1>3. others \div 2 \in Nat
  BY <1>1
<1>4. TargetLimit = IF TargetMax >= others \div 2 THEN TargetMax ELSE others \div 2
  BY <1>2, <1>3, MaxOfTwo DEF TargetLimit, others
<1>5. TargetMin .. TargetMax \subseteq TargetMin .. TargetLimit /\ TargetMin \in TargetMin .. TargetLimit
  BY <1>2, <1>3, <1>4
<1>6. Max({TargetMin, others \div 2}) \in TargetMin .. TargetLimit
  <2>1. Max({TargetMin, others \div 2}) = IF TargetMin >= others \div 2 THEN TargetMin ELSE others \div 2
    BY <1>2, <1>3, MaxOfTwo
  <2> QED BY <2>1, <1>2, <1>3, <1>4
<1>7. total # 0 => Clamp((others * PeerStorage) \div total) \in TargetMin .. TargetLimit
  <2>1. total \in Nat
    BY TotalFacts DEF Known
  <2> HIDE DEF total
  <2>2. others * PeerStorage \in Nat
    BY <1>1, <1>2
  <2>3. total # 0 => (others * PeerStorage) \div total \in Int
    BY <2>1, <2>2
  <2> QED BY <2>3, <1>5, ClampInLimits
<1> QED BY <1>5, <1>6, <1>7 DEF NetworkTarget, others

-----------------------------------------------------------------------------
(* What is selected for deletion *)

LEMMA OrderOf ==
  ASSUME NEW S \in SUBSET File, NEW s \in SetToSeqs(S)
  PROVE  s \in Seq(File) /\ \A i \in DOMAIN s : s[i] \in S
<1>1. IsFiniteSet(S)
  BY FS_Subset, ReplicationAssumption DEF ReplicationAssumption
<1>2. Cardinality(S) \in Nat
  BY <1>1, FS_CardinalityType
<1>3. s \in [1 .. Cardinality(S) -> S]
  BY DEF SetToSeqs
<1> QED BY <1>2, <1>3

\* Three lists joined.
LEMMA Joined ==
  ASSUME NEW o \in Seq(File), NEW h \in Seq(File), NEW e \in Seq(File)
  PROVE  /\ o \o h \o e \in Seq(File)
         /\ Len(o \o h \o e) = Len(o) + Len(h) + Len(e)
         /\ \A k \in 1 .. Len(o) + Len(h) + Len(e) :
              (o \o h \o e)[k] = IF k <= Len(o) THEN o[k]
                                 ELSE IF k <= Len(o) + Len(h) THEN h[k - Len(o)]
                                 ELSE e[k - (Len(o) + Len(h))]
<1> DEFINE oh == o \o h
<1>1. oh \in Seq(File) /\ Len(oh) = Len(o) + Len(h)
  OBVIOUS
<1>2. \A k \in 1 .. Len(o) + Len(h) : oh[k] = IF k <= Len(o) THEN o[k] ELSE h[k - Len(o)]
  OBVIOUS
<1> HIDE DEF oh
<1>3. /\ oh \o e \in Seq(File) /\ Len(oh \o e) = Len(oh) + Len(e)
      /\ \A k \in 1 .. Len(oh) + Len(e) : (oh \o e)[k] = IF k <= Len(oh) THEN oh[k] ELSE e[k - Len(oh)]
  <2>1. \A u, v \in Seq(File) :
          /\ u \o v \in Seq(File) /\ Len(u \o v) = Len(u) + Len(v)
          /\ \A k \in 1 .. Len(u) + Len(v) : (u \o v)[k] = IF k <= Len(u) THEN u[k] ELSE v[k - Len(u)]
    OBVIOUS
  <2> QED BY <1>1, <2>1
<1>4. Len(o) \in Nat /\ Len(h) \in Nat /\ Len(e) \in Nat
  OBVIOUS
<1>5. \A k \in 1 .. Len(o) + Len(h) + Len(e) :
        (oh \o e)[k] = IF k <= Len(o) THEN o[k]
                       ELSE IF k <= Len(o) + Len(h) THEN h[k - Len(o)]
                       ELSE e[k - (Len(o) + Len(h))]
  BY <1>1, <1>2, <1>3, <1>4
<1> QED BY <1>1, <1>3, <1>5 DEF oh

\* The three lists of select_files_to_delete, whose files have a count.
Lists(r, D, own, t, needed, o, h, e) ==
  /\ o \in ByCount(OverReplicated(r, D, t), r)
  /\ h \in SetToSeqs(AtTargetHigh(r, D, t))
  /\ e \in SetToSeqs(IF Critical(r, t) \/ needed > 0 THEN AtTargetExact(r, D, own, t) ELSE {})

LEMMA PlacesInLists ==
  ASSUME NEW r, NEW D, NEW own, NEW t, NEW needed, NEW o, NEW h, NEW e,
         Lists(r, D, own, t, needed, o, h, e)
  PROVE  /\ o \o h \o e \in Seq(File)
         /\ o \in Seq(File) /\ h \in Seq(File) /\ e \in Seq(File)
         /\ \A k \in DOMAIN (o \o h \o e) : LET f == (o \o h \o e)[k] IN
              \/ k <= Len(o) /\ f \in OverReplicated(r, D, t)
              \/ k > Len(o) /\ k <= Len(o) + Len(h) /\ f \in AtTargetHigh(r, D, t)
              \/ /\ k > Len(o) + Len(h) /\ f \in AtTargetExact(r, D, own, t)
                 /\ Critical(r, t) \/ needed > 0
<1>1. o \in SetToSeqs(OverReplicated(r, D, t))
  BY DEF Lists, ByCount, Sorted
<1>2. h \in SetToSeqs(AtTargetHigh(r, D, t))
  BY DEF Lists
<1> DEFINE E == IF Critical(r, t) \/ needed > 0 THEN AtTargetExact(r, D, own, t) ELSE {}
<1>3. e \in SetToSeqs(E)
  BY DEF Lists
<1>4. /\ OverReplicated(r, D, t) \in SUBSET File /\ AtTargetHigh(r, D, t) \in SUBSET File
      /\ AtTargetExact(r, D, own, t) \in SUBSET File /\ E \in SUBSET File
  BY DEF OverReplicated, AtTargetHigh, AtTargetExact, Known
<1>5. /\ o \in Seq(File) /\ \A i \in DOMAIN o : o[i] \in OverReplicated(r, D, t)
      /\ h \in Seq(File) /\ \A i \in DOMAIN h : h[i] \in AtTargetHigh(r, D, t)
  BY <1>1, <1>2, <1>4, OrderOf
<1>6. e \in Seq(File) /\ \A i \in DOMAIN e : e[i] \in E
  <2> HIDE DEF E
  <2> QED BY <1>3, <1>4, OrderOf
<1>7. o \o h \o e \in Seq(File) /\ Len(o \o h \o e) = Len(o) + Len(h) + Len(e)
  BY <1>5, <1>6, Joined
<1>8. ASSUME NEW k \in DOMAIN (o \o h \o e)
      PROVE  LET f == (o \o h \o e)[k] IN
              \/ k <= Len(o) /\ f \in OverReplicated(r, D, t)
              \/ k > Len(o) /\ k <= Len(o) + Len(h) /\ f \in AtTargetHigh(r, D, t)
              \/ k > Len(o) + Len(h) /\ f \in E
  <2>1. k \in 1 .. Len(o) + Len(h) + Len(e)
    BY <1>7
  <2>2. Len(o) \in Nat /\ Len(h) \in Nat /\ Len(e) \in Nat
    BY <1>5, <1>6
  <2>3. CASE k <= Len(o)
    <3>1. k \in DOMAIN o /\ (o \o h \o e)[k] = o[k]
      BY <2>1, <2>2, <2>3, <1>5, <1>6, Joined
    <3> QED BY <3>1, <2>3, <1>5
  <2>4. CASE k > Len(o) /\ k <= Len(o) + Len(h)
    <3>1. k - Len(o) \in DOMAIN h /\ (o \o h \o e)[k] = h[k - Len(o)]
      BY <2>1, <2>2, <2>4, <1>5, <1>6, Joined
    <3> QED BY <3>1, <2>4, <1>5
  <2>5. CASE k > Len(o) + Len(h)
    <3>1. k - (Len(o) + Len(h)) \in DOMAIN e /\ (o \o h \o e)[k] = e[k - (Len(o) + Len(h))]
      BY <2>1, <2>2, <2>5, <1>5, <1>6, Joined
    <3> HIDE DEF E
    <3> QED BY <3>1, <2>5, <1>6
  <2> QED BY <2>1, <2>2, <2>3, <2>4, <2>5
<1> QED BY <1>5, <1>6, <1>7, <1>8

\* What is selected is here, not an own file, and counted at the target or
\* above, and twice.
LEMMA SelectedMayGo ==
  ASSUME NEW r \in RegistryState, NEW D \in SUBSET File, NEW own, NEW t \in Nat, NEW needed,
         NEW S \in FilesToDelete(r, D, own, t, needed)
  PROVE  /\ S \subseteq (Known(r) \cap D) \ own
         /\ \A f \in S : Count(r, f) \in Nat /\ Count(r, f) >= t /\ Count(r, f) > 1
<1> DEFINE E == IF Critical(r, t) \/ needed > 0 THEN AtTargetExact(r, D, own, t) ELSE {}
<1>1. PICK o \in ByCount(OverReplicated(r, D, t), r),
           h \in SetToSeqs(AtTargetHigh(r, D, t)), e \in SetToSeqs(E) :
           S = Deleting(o \o h \o e, r, own, needed)
  BY DEF FilesToDelete
<1>2. Lists(r, D, own, t, needed, o, h, e)
  BY <1>1 DEF Lists
<1>3. \A f \in Known(r) : Count(r, f) \in Nat
  BY DEF Known, Count, RegistryState, Entry
<1>4. ASSUME NEW f \in S
      PROVE  /\ f \in (Known(r) \cap D) \ own
             /\ Count(r, f) \in Nat /\ Count(r, f) >= t /\ Count(r, f) > 1
  <2>1. PICK k \in DOMAIN (o \o h \o e) : f = (o \o h \o e)[k] /\ MayGo(r, own, f)
    BY <1>1 DEF Deleting
  <2>2. f \notin own /\ Count(r, f) > 1
    BY <2>1 DEF MayGo
  <2>3. \/ f \in OverReplicated(r, D, t)
        \/ f \in AtTargetHigh(r, D, t)
        \/ f \in AtTargetExact(r, D, own, t)
    BY <2>1, <1>2, PlacesInLists
  <2>4. f \in Known(r) \cap D
    BY <2>3 DEF OverReplicated, AtTargetHigh, AtTargetExact
  <2>5. Count(r, f) \in Nat
    BY <1>3, <2>4
  <2>6. Count(r, f) > High(t) \/ Count(r, f) = High(t) \/ Count(r, f) = t
    BY <2>3 DEF OverReplicated, AtTargetHigh, AtTargetExact
  <2>7. Count(r, f) >= t
    BY <2>5, <2>6, ReplicationAssumption DEF High, ReplicationAssumption
  <2> QED BY <2>2, <2>4, <2>5, <2>7
<1> QED BY <1>4

-----------------------------------------------------------------------------
(* Types *)

Messages == BagToSet(net)

\* A message that brings a file brings one that its author stores.
Backed(m) ==
  /\ m.type = "publish" => m.file \in disk[Author[m.file]]
  /\ m.type = "response" => \A f \in File : m.entries[f] # NoEntry => f \in disk[Author[f]]

\* What is known anywhere is on its author's disk, so that no download brings
\* an own file.
Published ==
  /\ \A n \in Node : \A f \in Known(reg[n]) : f \in disk[Author[f]]
  /\ \A m \in Messages : Backed(m)

\* TypeOK in parts, with what it leaves open of bags.
RegOK == reg \in [Node -> RegistryState]
DiskOK ==
  /\ disk \in [Node -> SUBSET File]
  /\ temp \in [Node -> SUBSET File] /\ \A n \in Node : temp[n] \subseteq disk[n] \ Own(n)
WorldOK ==
  /\ peers \in [Node -> SUBSET Node] /\ up \subseteq Node
  /\ fetch \in [Node -> Fetch] /\ stored \in [Node -> SUBSET File]
  /\ mixed \subseteq Node \X File /\ effort \in 0 .. MaxEffort
TargetOK == target \in [Node -> TargetMin .. TargetLimit]
ReceivedOK ==
  /\ received = [n \in Node |-> received[n]]
  /\ \A n \in Node : /\ IsABag(received[n])
                     /\ IsFiniteSet(BagToSet(received[n])) /\ BagToSet(received[n]) \subseteq Nat
QueueOK ==
  /\ queue = [n \in Node |-> queue[n]]
  /\ \A n \in Node : IsABag(queue[n]) /\ BagToSet(queue[n]) \subseteq File
NetOK == IsABag(net) /\ Messages \subseteq Note \cup Response

TypeInv ==
  RegOK /\ DiskOK /\ WorldOK /\ TargetOK /\ ReceivedOK /\ QueueOK /\ NetOK /\ Published

LEMMA TypeInvIsTypeOK == TypeInv => TypeOK
<1> SUFFICES ASSUME TypeInv PROVE TypeOK
  OBVIOUS
<1>1. reg \in [Node -> RegistryState]
  BY DEF TypeInv, RegOK
<1>2. /\ disk \in [Node -> SUBSET File] /\ temp \in [Node -> SUBSET File]
      /\ \A n \in Node : temp[n] \subseteq disk[n] \ Own(n)
  BY DEF TypeInv, DiskOK
<1>3. /\ peers \in [Node -> SUBSET Node] /\ up \subseteq Node
      /\ fetch \in [Node -> Fetch] /\ stored \in [Node -> SUBSET File]
      /\ mixed \subseteq Node \X File /\ effort \in 0 .. MaxEffort
  BY DEF TypeInv, WorldOK
<1>4. target \in [Node -> TargetMin .. Max({TargetMax, (Cardinality(Node) - 1) \div 2})]
  BY DEF TypeInv, TargetOK, TargetLimit
<1>5. \A n \in Node : IsABag(received[n]) /\ IsABag(queue[n]) /\ BagToSet(queue[n]) \subseteq File
  BY DEF TypeInv, ReceivedOK, QueueOK
<1>6. IsABag(net) /\ BagToSet(net) \subseteq Note \cup Response
  BY DEF TypeInv, NetOK, Messages
<1> QED BY <1>1, <1>2, <1>3, <1>4, <1>5, <1>6 DEF TypeOK

LEMMA ToPeersOf ==
  ASSUME NEW n \in Node, peers[n] \subseteq Node, NEW S \in SUBSET File,
         NEW type \in {"publish", "announce", "solicit", "ack"}
  PROVE  /\ IsABag(ToPeers(n, type, S))
         /\ \A m \in BagToSet(ToPeers(n, type, S)) :
              m \in Note /\ m.type = type /\ m.from = n /\ m.file \in S /\ m.to \in peers[n]
<1> DEFINE M == {[type |-> type, file |-> f, from |-> n, to |-> k] : f \in S, k \in peers[n]}
<1>1. \A m \in M : m \in Note /\ m.type = type /\ m.from = n /\ m.file \in S /\ m.to \in peers[n]
  BY DEF Note
<1> HIDE DEF M
<1>2. IsABag(SetToBag(M)) /\ BagToSet(SetToBag(M)) = M
  BY BagOfSet
<1> QED BY <1>1, <1>2 DEF ToPeers, M

LEMMA Sent ==
  ASSUME NEW n \in Node, peers[n] \subseteq Node, NEW S \in SUBSET File, NetOK,
         NEW type \in {"publish", "announce", "solicit", "ack"}, Broadcast(n, type, S)
  PROVE  /\ NetOK'
         /\ \A m \in Messages' :
              \/ m \in Messages
              \/ m.type = type /\ m.from = n /\ m.file \in S /\ m.to \in peers[n]
<1> DEFINE B == ToPeers(n, type, S)
<1>1. /\ IsABag(B)
      /\ \A m \in BagToSet(B) :
           m \in Note /\ m.type = type /\ m.from = n /\ m.file \in S /\ m.to \in peers[n]
  BY ToPeersOf
<1>2. net' = net (+) B
  BY DEF Broadcast
<1> HIDE DEF B
<1>3. IsABag(net') /\ BagToSet(net') = BagToSet(net) \cup BagToSet(B)
  BY <1>1, <1>2, BagPlus DEF NetOK
<1> QED BY <1>1, <1>3 DEF NetOK, Messages

LEMMA Gone ==
  ASSUME NetOK, NEW m, Received(m)
  PROVE  NetOK' /\ Messages' \subseteq Messages
<1>1. net' = net (-) SetToBag({m})
  BY DEF Received
<1>2. IsABag(net') /\ BagToSet(net') \subseteq BagToSet(net)
  BY <1>1, BagMinus, BagOfSet DEF NetOK
<1> QED BY <1>2 DEF NetOK, Messages

\* What a rebalancing at n deletes, and that it asks for nothing but files.
Deletes(n, t, S) ==
  /\ S \subseteq (Known(reg[n]) \cap disk[n]) \ Own(n)
  /\ \A f \in S : Count(reg[n], f) \in Nat /\ Count(reg[n], f) >= t /\ Count(reg[n], f) > 1

LEMMA SurplusMayGo ==
  ASSUME NEW n \in Node, reg[n] \in RegistryState, NEW t \in Nat, NEW S \in Surplus(n, t)
  PROVE  Deletes(n, t, S)
<1> DEFINE over == OverReplicated(reg[n], disk[n], t)
           k == Min({3, Cardinality(over)})
<1>1. PICK T \in kSubset(k, over) : S = {f \in T \ Own(n) : Count(reg[n], f) > 1}
  BY DEF Surplus
<1>2. T \subseteq over
  <2> HIDE DEF k, over
  <2> QED BY <1>1 DEF kSubset
<1>3. \A f \in over : f \in Known(reg[n]) \cap disk[n] /\ Count(reg[n], f) > t + Band
  BY DEF OverReplicated, High
<1>4. \A f \in Known(reg[n]) : Count(reg[n], f) \in Nat
  BY DEF Known, Count, RegistryState, Entry
<1>5. \A c \in Nat : c > t + Band => c >= t
  BY ReplicationAssumption DEF ReplicationAssumption
<1> HIDE DEF k, over
<1> QED BY <1>1, <1>2, <1>3, <1>4, <1>5 DEF Deletes

LEMMA Rebalanced ==
  ASSUME NEW n \in Node, reg[n] \in RegistryState, disk[n] \in SUBSET File, NEW t \in Nat,
         Execute(n, t)
  PROVE  /\ \/ reg' = reg /\ disk' = disk
            \/ \E S \in SUBSET File : Deletes(n, t, S) /\ Evict(n, S)
         /\ net' = net \/ \E W \in SUBSET File : Broadcast(n, "solicit", W)
<1> DEFINE under == UnderReplicated(reg[n], t)
           needed == Total(under \ disk[n])
           used(S) == Total(disk[n] \ S)
           solicits(r, room) ==
             \E S \in FilesToReplicate(r, peers[n], t, room) : Broadcast(n, "solicit", S)
<1>1. ASSUME NEW r, NEW room, solicits(r, room)
      PROVE  \E W \in SUBSET File : Broadcast(n, "solicit", W)
  <2>1. FilesToReplicate(r, peers[n], t, room) \subseteq SUBSET File
    BY DEF FilesToReplicate, UnderReplicated, AtTargetLow, Known
  <2> QED BY <1>1, <2>1
<1>2. \/ UNCHANGED <<reg, disk, net>>
      \/ solicits(reg[n], Available(n)) /\ UNCHANGED <<reg, disk>>
      \/ \E S \in FilesToDelete(reg[n], disk[n], Own(n), t, needed) :
           /\ Evict(n, S)
           /\ solicits(RemoveReplicas(reg[n], S, n),
                       IF Quota[n] > used(S) THEN Quota[n] - used(S) ELSE 0)
      \/ (\E S \in Surplus(n, t) : Evict(n, S)) /\ UNCHANGED net
  BY DEF Execute
<1> HIDE DEF solicits, needed
<1>3. CASE UNCHANGED <<reg, disk, net>>
  BY <1>3
<1>4. CASE solicits(reg[n], Available(n)) /\ UNCHANGED <<reg, disk>>
  BY <1>1, <1>4
<1>5. CASE \E S \in FilesToDelete(reg[n], disk[n], Own(n), t, needed) :
             /\ Evict(n, S)
             /\ solicits(RemoveReplicas(reg[n], S, n),
                         IF Quota[n] > used(S) THEN Quota[n] - used(S) ELSE 0)
  <2>1. PICK S \in FilesToDelete(reg[n], disk[n], Own(n), t, needed) :
             /\ Evict(n, S)
             /\ solicits(RemoveReplicas(reg[n], S, n),
                         IF Quota[n] > used(S) THEN Quota[n] - used(S) ELSE 0)
    BY <1>5
  <2>2. Deletes(n, t, S)
    BY SelectedMayGo DEF Deletes
  <2>3. S \in SUBSET File
    BY <2>2 DEF Deletes, Known
  <2> QED BY <1>1, <2>1, <2>2, <2>3
<1>6. CASE (\E S \in Surplus(n, t) : Evict(n, S)) /\ UNCHANGED net
  <2>1. PICK S \in Surplus(n, t) : Evict(n, S)
    BY <1>6
  <2>2. Deletes(n, t, S)
    BY SurplusMayGo
  <2>3. S \in SUBSET File
    BY <2>2 DEF Deletes, Known
  <2> QED BY <1>6, <2>1, <2>2, <2>3
<1> QED BY <1>2, <1>3, <1>4, <1>5, <1>6

\* What an operation leaves known.
LEMMA KnownAfterAdding ==
  ASSUME NEW r \in RegistryState, NEW e \in EntrySet
  PROVE  Known(AddAll(r, e)) = Known(r) \cup {f \in File : e[f] # NoEntry}
<1>1. \A f \in File : AddAll(r, e).cache[f] = IF e[f] = NoEntry THEN r.cache[f] ELSE e[f]
  BY DEF AddAll
<1> QED BY <1>1 DEF Known

LEMMA OneKnown ==
  ASSUME NEW r \in RegistryState, NEW f \in File, NEW n \in Node
  PROVE  /\ AddAll(r, Only(f, 1, {n})) \in RegistryState
         /\ Known(AddAll(r, Only(f, 1, {n}))) \subseteq Known(r) \cup {f}
<1>1. Only(f, 1, {n}) \in EntrySet
  BY OnlyIsEntrySet
<1>2. \A g \in File : g # f => Only(f, 1, {n})[g] = NoEntry
  BY DEF Only
<1> QED BY <1>1, <1>2, AddAllSound, KnownAfterAdding DEF Sound

LEMMA MergedKnown ==
  ASSUME NEW r \in RegistryState, NEW e \in EntrySet
  PROVE  /\ Merge(r, e) \in RegistryState
         /\ Known(Merge(r, e)) \subseteq Known(r) \cup {f \in File : e[f] # NoEntry}
<1> DEFINE new == Among(File \ Known(r), e)
<1>1. new \in EntrySet
  BY AmongIsEntrySet
<1>2. \A f \in File : new[f] # NoEntry => e[f] # NoEntry
  BY DEF Among
<1> HIDE DEF new
<1>3. AddAll(r, new) \in RegistryState
  BY <1>1, AddAllSound DEF Sound
<1>4. Known(AddAll(r, new)) = Known(r) \cup {f \in File : new[f] # NoEntry}
  BY <1>1, KnownAfterAdding
<1> QED BY <1>2, <1>3, <1>4 DEF Merge, new

LEMMA Learnt ==
  ASSUME reg \in [Node -> RegistryState], NEW n \in Node, NEW r \in RegistryState,
         NEW S, Known(r) \subseteq Known(reg[n]) \cup S, Learn(n, r)
  PROVE  /\ reg' \in [Node -> RegistryState]
         /\ \A p \in Node : \A f \in Known(reg'[p]) : f \in Known(reg[p]) \/ f \in S
<1>1. reg' = [reg EXCEPT ![n] = r]
  BY DEF Learn
<1>2. reg'[n] = r /\ \A p \in Node \ {n} : reg'[p] = reg[p]
  BY <1>1
<1> QED BY <1>1, <1>2

\* Own files stay, what becomes known is on its author's disk, and new messages
\* are backed.
OwnKept == \A f \in File : f \in disk[Author[f]] => f \in disk'[Author[f]]
LearnsStored == \A n \in Node : \A f \in Known(reg'[n]) : f \in Known(reg[n]) \/ f \in disk'[Author[f]]
SendsBacked == \A m \in Messages' : m \in Messages \/ Backed(m)'

LEMMA PublishedStep ==
  ASSUME Published, NetOK, OwnKept, LearnsStored, SendsBacked
  PROVE  Published'
<1>1. \A n \in Node : \A f \in Known(reg'[n]) : f \in disk'[Author[f]]
  BY DEF Published, OwnKept, LearnsStored, Known
<1>2. ASSUME NEW m \in Messages, Backed(m) PROVE Backed(m)'
  <2>1. m.type = "publish" => m.file \in File
    BY DEF NetOK, Note, Response
  <2> QED BY <2>1, <1>2 DEF Backed, OwnKept
<1>3. \A m \in Messages' : Backed(m)'
  BY <1>2 DEF Published, SendsBacked
<1> QED BY <1>1, <1>3 DEF Published

LEMMA InitTypes == Init => TypeInv
<1> SUFFICES ASSUME Init PROVE TypeInv
  OBVIOUS
<1>1. Known(EmptyRegistry) = {} /\ EmptyRegistry \in RegistryState
  BY EmptyIsSound DEF Known, EmptyRegistry
<1>2. \A n \in Node : TargetMin \in TargetMin .. TargetLimit
  BY TargetInLimits
<1>3. NoFetch \in Fetch /\ 0 \in 0 .. MaxEffort
  BY RebalanceAssumption DEF Fetch, RebalanceAssumption
<1>4. IsABag(EmptyBag) /\ BagToSet(EmptyBag) = {} /\ IsFiniteSet({})
  BY EmptyIsABag, FS_EmptySet
<1>5. RegOK /\ DiskOK /\ WorldOK /\ TargetOK
  BY <1>1, <1>2, <1>3 DEF Init, RegOK, DiskOK, WorldOK, TargetOK
<1>6. ReceivedOK /\ QueueOK /\ NetOK
  BY <1>4 DEF Init, ReceivedOK, QueueOK, NetOK, Messages
<1>7. Published
  BY <1>1, <1>4 DEF Init, Published, Messages
<1> QED BY <1>5, <1>6, <1>7 DEF TypeInv

LEMMA Enqueued ==
  ASSUME QueueOK, NEW n \in Node, NEW f \in File, Enqueue(n, f)
  PROVE  QueueOK'
<1> DEFINE b == queue[n] (+) SetToBag({f})
<1>1. IsABag(b) /\ BagToSet(b) \subseteq File
  BY BagPlus, BagOfSet DEF QueueOK
<1>2. queue' = [queue EXCEPT ![n] = b]
  BY DEF Enqueue
<1> HIDE DEF b
<1> QED BY <1>1, <1>2 DEF QueueOK

LEMMA ReceivedNote ==
  ASSUME NetOK, NEW m \in Messages
  PROVE  /\ m.type # "response" => m \in Note /\ m.file \in File /\ m.from \in Node /\ m.to \in Node
         /\ m.type = "response" => /\ m \in Response /\ m.entries \in EntrySet /\ m.target \in Nat
                                   /\ m.from \in Node /\ m.to \in Node
  BY DEF NetOK, Note, Response

\* A target that arrives, and the median of those that have arrived.
LEMMA TargetHeard ==
  ASSUME ReceivedOK, TargetOK, NEW n \in Node, NEW v \in Nat,
         LET b == received[n] (+) SetToBag({v}) IN
           /\ received' = [received EXCEPT ![n] = b]
           /\ target' = [target EXCEPT ![n] = Clamp(Median(b))]
  PROVE  ReceivedOK' /\ TargetOK'
<1> DEFINE b == received[n] (+) SetToBag({v})
<1>1. IsABag(received[n]) /\ IsFiniteSet(BagToSet(received[n])) /\ BagToSet(received[n]) \subseteq Nat
  BY DEF ReceivedOK
<1>2. IsABag(b) /\ BagToSet(b) = BagToSet(received[n]) \cup {v}
  BY <1>1, BagPlus, BagOfSet
<1>3. IsFiniteSet(BagToSet(b)) /\ BagToSet(b) \subseteq Nat /\ BagToSet(b) # {}
  BY <1>1, <1>2, FS_AddElement
<1>4. received' = [received EXCEPT ![n] = b] /\ target' = [target EXCEPT ![n] = Clamp(Median(b))]
  OBVIOUS
<1> HIDE DEF b
<1>5. Clamp(Median(b)) \in TargetMin .. TargetLimit
  BY <1>2, <1>3, MedianIsNumber, ClampInLimits, TargetInLimits
<1> QED BY <1>2, <1>3, <1>4, <1>5 DEF ReceivedOK, TargetOK

\* A rebalancing keeps registries and network in shape, and own files.
LEMMA ExecutedTypes ==
  ASSUME TypeInv, NEW n \in Node, NEW t \in Nat, Execute(n, t)
  PROVE  /\ RegOK' /\ NetOK'
         /\ disk' \in [Node -> SUBSET File] /\ \A p \in Node \ {n} : disk'[p] = disk[p]
         /\ OwnKept /\ LearnsStored /\ SendsBacked
<1>1. RegOK /\ DiskOK /\ WorldOK /\ NetOK
  BY DEF TypeInv
<1>2. /\ reg \in [Node -> RegistryState] /\ disk \in [Node -> SUBSET File]
      /\ reg[n] \in RegistryState /\ disk[n] \in SUBSET File /\ peers[n] \subseteq Node
  BY <1>1 DEF RegOK, DiskOK, WorldOK
<1>3. /\ \/ reg' = reg /\ disk' = disk
         \/ \E S \in SUBSET File : Deletes(n, t, S) /\ Evict(n, S)
      /\ net' = net \/ \E W \in SUBSET File : Broadcast(n, "solicit", W)
  BY <1>2, Rebalanced
<1>4. NetOK' /\ \A m \in Messages' : m \in Messages \/ m.type = "solicit"
  <2>1. CASE net' = net
    BY <2>1, <1>1 DEF NetOK, Messages
  <2>2. CASE \E W \in SUBSET File : Broadcast(n, "solicit", W)
    <3>1. PICK W \in SUBSET File : Broadcast(n, "solicit", W)
      BY <2>2
    <3> QED BY <3>1, <1>1, <1>2, Sent
  <2> QED BY <2>1, <2>2, <1>3
<1>5. SendsBacked
  BY <1>4 DEF SendsBacked, Backed
<1>6. CASE reg' = reg /\ disk' = disk
  BY <1>2, <1>4, <1>5, <1>6 DEF RegOK, OwnKept, LearnsStored
<1>7. CASE \E S \in SUBSET File : Deletes(n, t, S) /\ Evict(n, S)
  <2>1. PICK S \in SUBSET File : Deletes(n, t, S) /\ Evict(n, S)
    BY <1>7
  <2> DEFINE r == RemoveReplicas(reg[n], S, n)
  <2>2. r \in RegistryState /\ Known(r) = Known(reg[n])
    BY <1>2, RemoveReplicasSound DEF Sound
  <2>3. Learn(n, r) /\ disk' = [disk EXCEPT ![n] = @ \ S]
    BY <2>1 DEF Evict
  <2>4. /\ reg' \in [Node -> RegistryState]
        /\ \A p \in Node : \A g \in Known(reg'[p]) : g \in Known(reg[p]) \/ g \in {}
    <3> HIDE DEF r
    <3> QED BY <1>2, <2>2, <2>3, Learnt
  <2>5. S \cap Own(n) = {}
    BY <2>1 DEF Deletes
  <2>6. OwnKept
    BY <2>3, <2>5, <1>2, RebalanceAssumption DEF OwnKept, Own, RebalanceAssumption
  <2>7. disk' \in [Node -> SUBSET File] /\ \A p \in Node \ {n} : disk'[p] = disk[p]
    BY <1>2, <2>3
  <2> QED BY <1>4, <1>5, <2>4, <2>6, <2>7 DEF RegOK, LearnsStored
<1> QED BY <1>3, <1>6, <1>7

LEMMA TypeStep == TypeInv /\ [Next]_vars => TypeInv'
<1> SUFFICES ASSUME TypeInv, [Next]_vars PROVE TypeInv'
  OBVIOUS
<1> USE DEF view, world
<1>1. /\ RegOK /\ DiskOK /\ WorldOK /\ TargetOK
      /\ ReceivedOK /\ QueueOK /\ NetOK /\ Published
  BY DEF TypeInv
<1>2. /\ reg \in [Node -> RegistryState] /\ disk \in [Node -> SUBSET File]
      /\ \A n \in Node : reg[n] \in RegistryState /\ disk[n] \in SUBSET File /\ peers[n] \subseteq Node
  BY <1>1 DEF RegOK, DiskOK, WorldOK
<1>3. \A f \in File : Author[f] \in Node
  BY RebalanceAssumption DEF RebalanceAssumption
<1>4. ASSUME NEW f \in File, Publish(f) PROVE TypeInv'
  <2> DEFINE n == Author[f]  r == AddAll(reg[n], Only(f, 1, {n}))
  <2>1. n \in Node
    BY <1>3
  <2>2. NetOK' /\ \A m \in Messages' : m \in Messages \/ (m.type = "publish" /\ m.file \in {f})
    BY <1>1, <1>2, <1>4, <2>1, Sent DEF Publish
  <2>3. r \in RegistryState /\ Known(r) \subseteq Known(reg[n]) \cup {f}
    BY <1>2, <2>1, OneKnown
  <2>4. Learn(n, r)
    BY <1>4 DEF Publish
  <2>5. /\ reg' \in [Node -> RegistryState]
        /\ \A p \in Node : \A g \in Known(reg'[p]) : g \in Known(reg[p]) \/ g \in {f}
    <3> HIDE DEF r, n
    <3> QED BY <1>2, <2>1, <2>3, <2>4, Learnt
  <2>6. /\ disk' = [disk EXCEPT ![n] = @ \cup {f}]
        /\ temp' = temp /\ target' = target /\ received' = received /\ queue' = queue
        /\ fetch' = fetch /\ stored' = stored /\ mixed' = mixed
        /\ peers' = peers /\ up' = up /\ effort' = effort
    BY <1>4 DEF Publish
  <2>7. DiskOK'
    BY <1>1, <2>1, <2>6 DEF DiskOK, Own
  <2>8. OwnKept /\ f \in disk'[Author[f]]
    BY <1>2, <1>3, <2>6 DEF OwnKept
  <2>9. LearnsStored /\ SendsBacked
    BY <2>2, <2>5, <2>8 DEF LearnsStored, SendsBacked, Backed
  <2>10. Published'
    BY <1>1, <2>8, <2>9, PublishedStep
  <2>11. WorldOK' /\ TargetOK' /\ ReceivedOK' /\ QueueOK'
    BY <1>1, <2>6 DEF WorldOK, TargetOK, ReceivedOK, QueueOK
  <2> QED BY <2>2, <2>5, <2>7, <2>10, <2>11 DEF TypeInv, RegOK
<1>5. ASSUME NEW m \in Messages, OnPublish(m) PROVE TypeInv'
  <2> DEFINE n == m.to  f == m.file  r == AddAll(reg[n], Only(f, 1, {m.from}))
  <2>1. m \in Note /\ f \in File /\ m.from \in Node /\ n \in Node /\ m.type = "publish"
    BY <1>1, <1>5, ReceivedNote DEF OnPublish
  <2>2. NetOK' /\ Messages' \subseteq Messages
    BY <1>1, <1>5, Gone DEF OnPublish
  <2>3. r \in RegistryState /\ Known(r) \subseteq Known(reg[n]) \cup {f}
    BY <1>2, <2>1, OneKnown
  <2>4. Learn(n, r)
    BY <1>5 DEF OnPublish
  <2>5. /\ reg' \in [Node -> RegistryState]
        /\ \A p \in Node : \A g \in Known(reg'[p]) : g \in Known(reg[p]) \/ g \in {f}
    <3> HIDE DEF r, n
    <3> QED BY <1>2, <2>1, <2>3, <2>4, Learnt
  <2>6. /\ disk' = disk /\ temp' = temp /\ target' = target /\ received' = received
        /\ fetch' = fetch /\ stored' = stored /\ peers' = peers /\ up' = up /\ effort' = effort
    BY <1>5 DEF OnPublish
  <2>7. Enqueue(n, f) \/ queue' = queue
    BY <1>5 DEF OnPublish
  <2>8. QueueOK'
    BY <1>1, <2>1, <2>7, Enqueued DEF QueueOK
  <2>9. mixed' \subseteq Node \X File
    <3>1. mixed' = mixed \cup ({n} \X (IF n \in reg[n].cache[f].nodes THEN {f} ELSE {}))
      BY <1>5 DEF OnPublish, Mixes
    <3> QED BY <3>1, <1>1, <2>1 DEF WorldOK
  <2>10. f \in disk[Author[f]]
    BY <1>1, <2>1 DEF Published, Backed
  <2>11. OwnKept /\ LearnsStored /\ SendsBacked
    BY <2>2, <2>5, <2>6, <2>10 DEF OwnKept, LearnsStored, SendsBacked
  <2>12. Published'
    BY <1>1, <2>11, PublishedStep
  <2>13. WorldOK' /\ DiskOK' /\ TargetOK' /\ ReceivedOK'
    BY <1>1, <2>6, <2>9 DEF WorldOK, DiskOK, TargetOK, ReceivedOK
  <2> QED BY <2>2, <2>5, <2>8, <2>12, <2>13 DEF TypeInv, RegOK
<1>6. ASSUME NEW m \in Messages, OnReplica(m) PROVE TypeInv'
  <2> DEFINE n == m.to  r == Increment(reg[n], m.file, m.from)
  <2>1. m \in Note /\ m.file \in File /\ m.from \in Node /\ n \in Node
    BY <1>1, <1>6, ReceivedNote DEF OnReplica
  <2>2. NetOK' /\ Messages' \subseteq Messages
    BY <1>1, <1>6, Gone DEF OnReplica
  <2>3. r \in RegistryState /\ Known(r) = Known(reg[n])
    BY <1>2, <2>1, IncrementSound DEF Sound
  <2>4. Learn(n, r)
    BY <1>6 DEF OnReplica
  <2>5. /\ reg' \in [Node -> RegistryState]
        /\ \A p \in Node : \A g \in Known(reg'[p]) : g \in Known(reg[p]) \/ g \in {}
    <3> HIDE DEF r, n
    <3> QED BY <1>2, <2>1, <2>3, <2>4, Learnt
  <2>6. /\ disk' = disk /\ temp' = temp /\ target' = target /\ received' = received
        /\ queue' = queue /\ mixed' = mixed
        /\ fetch' = fetch /\ stored' = stored /\ peers' = peers /\ up' = up /\ effort' = effort
    BY <1>6 DEF OnReplica
  <2>7. OwnKept /\ LearnsStored /\ SendsBacked
    BY <2>2, <2>5, <2>6 DEF OwnKept, LearnsStored, SendsBacked
  <2>8. Published'
    BY <1>1, <2>7, PublishedStep
  <2>9. WorldOK' /\ DiskOK' /\ TargetOK' /\ ReceivedOK' /\ QueueOK'
    BY <1>1, <2>6 DEF WorldOK, DiskOK, TargetOK, ReceivedOK, QueueOK
  <2> QED BY <2>2, <2>5, <2>8, <2>9 DEF TypeInv, RegOK
<1>7. ASSUME NEW m \in Messages, OnSolicit(m) PROVE TypeInv'
  <2> DEFINE n == m.to  f == m.file
             ack == [type |-> "ack", file |-> f, from |-> n, to |-> m.from]
  <2>1. m \in Note /\ f \in File /\ m.from \in Node /\ n \in Node
    BY <1>1, <1>7, ReceivedNote DEF OnSolicit
  <2>2. \/ /\ net' = (net (-) SetToBag({m})) (+) SetToBag({ack})
           /\ Enqueue(n, f) /\ Mixes(n, {f})
        \/ Received(m) /\ queue' = queue /\ mixed' = mixed
    BY <1>7 DEF OnSolicit
  <2>3. ack \in Note /\ ack.type = "ack"
    BY <2>1 DEF Note
  <2>4. NetOK' /\ \A k \in Messages' : k \in Messages \/ k = ack
    <3> HIDE DEF ack
    <3>1. ASSUME net' = (net (-) SetToBag({m})) (+) SetToBag({ack})
          PROVE  NetOK' /\ \A k \in Messages' : k \in Messages \/ k = ack
      <4> DEFINE rest == net (-) SetToBag({m})
      <4>1. IsABag(rest) /\ BagToSet(rest) \subseteq BagToSet(net)
        BY <1>1, BagMinus, BagOfSet DEF NetOK
      <4> HIDE DEF rest
      <4>2. IsABag(net') /\ BagToSet(net') = BagToSet(rest) \cup {ack}
        BY <3>1, <4>1, BagPlus, BagOfSet DEF rest
      <4> QED BY <1>1, <2>3, <4>1, <4>2 DEF NetOK, Messages
    <3> QED BY <3>1, <2>2, <1>1, Gone
  <2>5. QueueOK'
    BY <1>1, <2>1, <2>2, Enqueued DEF QueueOK
  <2>6. mixed' \subseteq Node \X File
    BY <1>1, <2>1, <2>2 DEF WorldOK, Mixes
  <2>7. /\ reg' = reg /\ disk' = disk /\ temp' = temp /\ target' = target /\ received' = received
        /\ fetch' = fetch /\ stored' = stored /\ peers' = peers /\ up' = up /\ effort' = effort
    BY <1>7 DEF OnSolicit
  <2>8. OwnKept /\ LearnsStored /\ SendsBacked
    BY <2>3, <2>4, <2>7 DEF OwnKept, LearnsStored, SendsBacked, Backed
  <2>9. Published'
    BY <1>1, <2>8, PublishedStep
  <2>10. RegOK' /\ WorldOK' /\ DiskOK' /\ TargetOK' /\ ReceivedOK'
    BY <1>1, <2>6, <2>7 DEF RegOK, WorldOK, DiskOK, TargetOK, ReceivedOK
  <2> QED BY <2>4, <2>5, <2>9, <2>10 DEF TypeInv
<1>8. ASSUME NEW m \in Messages, OnResponse(m) PROVE TypeInv'
  <2> DEFINE n == m.to  r == Merge(reg[n], m.entries)  S == {f \in File : m.entries[f] # NoEntry}
  <2>1. /\ m \in Response /\ m.entries \in EntrySet /\ m.target \in Nat
        /\ n \in Node /\ m.type = "response"
    BY <1>1, <1>8, ReceivedNote DEF OnResponse
  <2>2. NetOK' /\ Messages' \subseteq Messages
    BY <1>1, <1>8, Gone DEF OnResponse
  <2>3. r \in RegistryState /\ Known(r) \subseteq Known(reg[n]) \cup S
    BY <1>2, <2>1, MergedKnown
  <2>4. Learn(n, r)
    BY <1>8 DEF OnResponse
  <2>5. /\ reg' \in [Node -> RegistryState]
        /\ \A p \in Node : \A g \in Known(reg'[p]) : g \in Known(reg[p]) \/ g \in S
    <3> HIDE DEF r, n, S
    <3> QED BY <1>2, <2>1, <2>3, <2>4, Learnt
  <2>6. /\ disk' = disk /\ temp' = temp /\ queue' = queue /\ mixed' = mixed
        /\ fetch' = fetch /\ stored' = stored /\ peers' = peers /\ up' = up /\ effort' = effort
    BY <1>8 DEF OnResponse
  <2>7. ReceivedOK' /\ TargetOK'
    <3>1. LET b == received[n] (+) SetToBag({m.target}) IN
            /\ received' = [received EXCEPT ![n] = b]
            /\ target' = [target EXCEPT ![n] = Clamp(Median(b))]
      BY <1>8 DEF OnResponse
    <3> HIDE DEF n
    <3> QED BY <1>1, <2>1, <3>1, TargetHeard
  <2>8. \A f \in S : f \in disk[Author[f]]
    BY <1>1, <2>1 DEF Published, Backed
  <2>9. OwnKept /\ LearnsStored /\ SendsBacked
    BY <2>2, <2>5, <2>6, <2>8 DEF OwnKept, LearnsStored, SendsBacked
  <2>10. Published'
    BY <1>1, <2>9, PublishedStep
  <2>11. WorldOK' /\ DiskOK' /\ QueueOK'
    BY <1>1, <2>6 DEF WorldOK, DiskOK, QueueOK
  <2> QED BY <2>2, <2>5, <2>7, <2>10, <2>11 DEF TypeInv, RegOK
<1>9. ASSUME NEW n \in Node, NEW f \in File, Complete(n, f) PROVE TypeInv'
  <2>1. /\ reg' = reg /\ target' = target /\ received' = received /\ queue' = queue
        /\ fetch' = fetch /\ net' = net /\ mixed' = mixed /\ peers' = peers /\ up' = up
        /\ disk' = [disk EXCEPT ![n] = @ \cup {f}] /\ temp' = [temp EXCEPT ![n] = @ \cup {f}]
        /\ stored' = [stored EXCEPT ![n] = {f}] /\ f \in Known(reg[n]) \ disk[n]
    BY <1>9 DEF Complete
  <2>2. effort' \in 0 .. MaxEffort
    BY <1>1, <1>9, RebalanceAssumption DEF Complete, Effort, WorldOK, RebalanceAssumption
  <2>3. f \notin Own(n)
    BY <2>1, <1>1 DEF Published, Own
  <2>4. DiskOK'
    BY <1>1, <2>1, <2>3 DEF DiskOK, Own
  <2>5. OwnKept /\ LearnsStored /\ SendsBacked
    BY <2>1, <1>2, <1>3 DEF OwnKept, LearnsStored, SendsBacked, Messages
  <2>6. RegOK' /\ WorldOK' /\ TargetOK' /\ ReceivedOK' /\ QueueOK' /\ NetOK'
    BY <1>1, <2>1, <2>2 DEF RegOK, WorldOK, TargetOK, ReceivedOK, QueueOK, NetOK, Messages
  <2> QED BY <1>1, <2>4, <2>5, <2>6, PublishedStep DEF TypeInv
<1>10. ASSUME NEW n \in Node, NEW f \in File, CountStored(n, f) PROVE TypeInv'
  <2> DEFINE r == Increment(reg[n], f, n)
  <2>1. /\ disk' = disk /\ temp' = temp /\ target' = target /\ received' = received
        /\ queue' = queue /\ fetch' = fetch /\ peers' = peers /\ up' = up /\ effort' = effort
        /\ stored' = [stored EXCEPT ![n] = {}]
        /\ Learn(n, r) /\ Broadcast(n, "announce", {f}) /\ Mixes(n, {f} \ disk[n])
    BY <1>10 DEF CountStored
  <2>2. r \in RegistryState /\ Known(r) = Known(reg[n])
    BY <1>2, IncrementSound DEF Sound
  <2>3. /\ reg' \in [Node -> RegistryState]
        /\ \A p \in Node : \A g \in Known(reg'[p]) : g \in Known(reg[p]) \/ g \in {}
    <3> HIDE DEF r
    <3> QED BY <1>2, <2>1, <2>2, Learnt
  <2>4. NetOK' /\ \A m \in Messages' : m \in Messages \/ m.type = "announce"
    BY <1>1, <1>2, <2>1, Sent
  <2>5. mixed' \subseteq Node \X File
    BY <1>1, <2>1 DEF WorldOK, Mixes
  <2>6. OwnKept /\ LearnsStored /\ SendsBacked
    BY <2>1, <2>3, <2>4 DEF OwnKept, LearnsStored, SendsBacked, Backed
  <2>7. DiskOK' /\ WorldOK' /\ TargetOK' /\ ReceivedOK' /\ QueueOK'
    BY <1>1, <2>1, <2>5 DEF DiskOK, WorldOK, TargetOK, ReceivedOK, QueueOK
  <2> QED BY <1>1, <2>3, <2>4, <2>6, <2>7, PublishedStep DEF TypeInv, RegOK
<1>11. ASSUME NEW n \in Node, NEW f \in File, Wish(n, f) PROVE TypeInv'
  <2>1. /\ reg' = reg /\ disk' = disk /\ temp' = temp /\ target' = target /\ received' = received
        /\ fetch' = fetch /\ stored' = stored /\ net' = net /\ mixed' = mixed
        /\ peers' = peers /\ up' = up
        /\ Effort /\ Enqueue(n, f)
    BY <1>11 DEF Wish
  <2>2. effort' \in 0 .. MaxEffort
    BY <1>1, <2>1, RebalanceAssumption DEF Effort, WorldOK, RebalanceAssumption
  <2>3. QueueOK'
    BY <1>1, <2>1, Enqueued
  <2>4. OwnKept /\ LearnsStored /\ SendsBacked
    BY <2>1 DEF OwnKept, LearnsStored, SendsBacked, Messages
  <2>5. RegOK' /\ DiskOK' /\ WorldOK' /\ TargetOK' /\ ReceivedOK' /\ NetOK'
    BY <1>1, <2>1, <2>2 DEF RegOK, DiskOK, WorldOK, TargetOK, ReceivedOK, NetOK, Messages
  <2> QED BY <1>1, <2>3, <2>4, <2>5, PublishedStep DEF TypeInv
<1>12. ASSUME NEW n \in Node, NEW f \in File, Solicit(n, f) PROVE TypeInv'
  <2> DEFINE r == Increment(reg[n], f, n)
  <2>1. /\ disk' = disk /\ temp' = temp /\ target' = target /\ received' = received
        /\ stored' = stored /\ net' = net /\ mixed' = mixed
        /\ peers' = peers /\ up' = up /\ effort' = effort
        /\ queue' = [queue EXCEPT ![n] = @ (-) SetToBag({f})]
    BY <1>12 DEF Solicit
  <2>2. \/ Learn(n, r) /\ fetch' = fetch
        \/ reg' = reg /\ fetch' = fetch
        \/ /\ reg' = reg
           /\ \E h \in peers[n] : fetch' = [fetch EXCEPT ![n] = [file |-> f, host |-> {h}]]
    BY <1>12 DEF Solicit
  <2>3. r \in RegistryState /\ Known(r) = Known(reg[n])
    BY <1>2, IncrementSound DEF Sound
  <2>4. RegOK' /\ LearnsStored
    <3> HIDE DEF r
    <3>1. ASSUME Learn(n, r) PROVE RegOK' /\ LearnsStored
      <4>1. /\ reg' \in [Node -> RegistryState]
            /\ \A p \in Node : \A g \in Known(reg'[p]) : g \in Known(reg[p]) \/ g \in {}
        BY <1>2, <2>3, <3>1, Learnt
      <4> QED BY <4>1 DEF RegOK, LearnsStored
    <3>2. ASSUME reg' = reg PROVE RegOK' /\ LearnsStored
      BY <3>2, <1>1 DEF RegOK, LearnsStored
    <3> QED BY <3>1, <3>2, <2>2
  <2>5. fetch' \in [Node -> Fetch]
    <3>1. \A h \in peers[n] : [file |-> f, host |-> {h}] \in Fetch
      <4> SUFFICES ASSUME NEW h \in peers[n] PROVE [file |-> f, host |-> {h}] \in Fetch
        OBVIOUS
      <4>1. h \in Node
        BY <1>2
      <4> QED BY <4>1 DEF Fetch
    <3> QED BY <3>1, <2>2, <1>1 DEF WorldOK
  <2>6. QueueOK'
    <3> DEFINE b == queue[n] (-) SetToBag({f})
    <3>1. IsABag(b) /\ BagToSet(b) \subseteq File
      BY <1>1, BagMinus, BagOfSet DEF QueueOK
    <3>2. queue' = [queue EXCEPT ![n] = b]
      BY <2>1
    <3> HIDE DEF b
    <3> QED BY <1>1, <3>1, <3>2 DEF QueueOK
  <2>7. OwnKept /\ SendsBacked
    BY <2>1 DEF OwnKept, SendsBacked, Messages
  <2>8. DiskOK' /\ WorldOK' /\ TargetOK' /\ ReceivedOK' /\ NetOK'
    BY <1>1, <2>1, <2>5 DEF DiskOK, WorldOK, TargetOK, ReceivedOK, NetOK, Messages
  <2> QED BY <1>1, <2>4, <2>6, <2>7, <2>8, PublishedStep DEF TypeInv
<1>13. ASSUME NEW n \in Node, Replicate(n) PROVE TypeInv'
  <2> DEFINE f == fetch[n].file  r == Increment(reg[n], f, n)
  <2>1. /\ disk' = disk /\ temp' = [temp EXCEPT ![n] = @ \ {f}] /\ target' = target
        /\ received' = received /\ queue' = queue /\ stored' = stored /\ mixed' = mixed
        /\ peers' = peers /\ up' = up /\ effort' = effort
        /\ fetch' = [fetch EXCEPT ![n] = NoFetch] /\ f \in disk[n]
        /\ Learn(n, r) /\ Broadcast(n, "announce", {f})
    BY <1>13 DEF Replicate
  <2>2. f \in File
    BY <1>2, <2>1
  <2>3. r \in RegistryState /\ Known(r) = Known(reg[n])
    BY <1>2, <2>2, IncrementSound DEF Sound
  <2>4. /\ reg' \in [Node -> RegistryState]
        /\ \A p \in Node : \A g \in Known(reg'[p]) : g \in Known(reg[p]) \/ g \in {}
    <3> HIDE DEF r
    <3> QED BY <1>2, <2>1, <2>3, Learnt
  <2>5. NetOK' /\ \A m \in Messages' : m \in Messages \/ m.type = "announce"
    BY <1>1, <1>2, <2>1, <2>2, Sent
  <2>6. NoFetch \in Fetch
    BY DEF Fetch
  <2>7. OwnKept /\ LearnsStored /\ SendsBacked
    BY <2>1, <2>4, <2>5 DEF OwnKept, LearnsStored, SendsBacked, Backed
  <2>8. DiskOK' /\ WorldOK' /\ TargetOK' /\ ReceivedOK' /\ QueueOK'
    BY <1>1, <2>1, <2>6 DEF DiskOK, WorldOK, TargetOK, ReceivedOK, QueueOK
  <2> QED BY <1>1, <2>4, <2>5, <2>7, <2>8, PublishedStep DEF TypeInv, RegOK
<1>14. ASSUME NEW n \in Node, Fails(n) PROVE TypeInv'
  <2>1. /\ reg' = reg /\ disk' = disk /\ temp' = temp /\ target' = target /\ received' = received
        /\ queue' = queue /\ stored' = stored /\ net' = net /\ mixed' = mixed
        /\ peers' = peers /\ up' = up /\ effort' = effort
        /\ fetch' = [fetch EXCEPT ![n] = NoFetch]
    BY <1>14 DEF Fails
  <2>2. NoFetch \in Fetch
    BY DEF Fetch
  <2>3. OwnKept /\ LearnsStored /\ SendsBacked
    BY <2>1 DEF OwnKept, LearnsStored, SendsBacked, Messages
  <2>4. RegOK' /\ DiskOK' /\ WorldOK' /\ TargetOK' /\ ReceivedOK' /\ QueueOK' /\ NetOK'
    BY <1>1, <2>1, <2>2 DEF RegOK, DiskOK, WorldOK, TargetOK, ReceivedOK, QueueOK, NetOK, Messages
  <2> QED BY <1>1, <2>3, <2>4, PublishedStep DEF TypeInv
<1>15. ASSUME NEW n \in Node, ActRebalance(n) PROVE TypeInv'
  <2> DEFINE t == NetworkTarget(reg[n], Cardinality(Node) - 1)
  <2>1. /\ Execute(n, t) /\ Effort /\ target' = [target EXCEPT ![n] = t]
        /\ temp' = [temp EXCEPT ![n] = @ \cap disk'[n]]
        /\ received' = received /\ queue' = queue /\ fetch' = fetch /\ stored' = stored
        /\ mixed' = mixed /\ peers' = peers /\ up' = up
    BY <1>15 DEF ActRebalance
  <2>2. t \in TargetMin .. TargetLimit
    BY TargetInLimits
  <2> HIDE DEF t
  <2>3. t \in Nat
    BY <2>2, ReplicationAssumption DEF ReplicationAssumption
  <2>4. /\ RegOK' /\ NetOK' /\ OwnKept /\ LearnsStored /\ SendsBacked
        /\ disk' \in [Node -> SUBSET File] /\ \A p \in Node \ {n} : disk'[p] = disk[p]
    BY <2>1, <2>3, ExecutedTypes
  <2>5. DiskOK'
    BY <1>1, <2>1, <2>4 DEF DiskOK
  <2>6. effort' \in 0 .. MaxEffort
    BY <1>1, <2>1, RebalanceAssumption DEF Effort, WorldOK, RebalanceAssumption
  <2>7. WorldOK' /\ TargetOK' /\ ReceivedOK' /\ QueueOK'
    BY <1>1, <2>1, <2>2, <2>6 DEF WorldOK, TargetOK, ReceivedOK, QueueOK
  <2> QED BY <1>1, <2>4, <2>5, <2>7, PublishedStep DEF TypeInv
<1>16. ASSUME NEW n \in Node, ActCleanup(n) PROVE TypeInv'
  <2>1. PICK S \in SUBSET temp[n] : temp' = [temp EXCEPT ![n] = (@ \ S) \cap disk'[n]]
    BY <1>16 DEF ActCleanup
  <2>2. /\ Execute(n, target[n]) /\ Effort /\ target' = target
        /\ received' = received /\ queue' = queue /\ fetch' = fetch /\ stored' = stored
        /\ mixed' = mixed /\ peers' = peers /\ up' = up
    BY <1>16 DEF ActCleanup
  <2>3. target[n] \in Nat
    BY <1>1, ReplicationAssumption DEF TargetOK, ReplicationAssumption
  <2>4. /\ RegOK' /\ NetOK' /\ OwnKept /\ LearnsStored /\ SendsBacked
        /\ disk' \in [Node -> SUBSET File] /\ \A p \in Node \ {n} : disk'[p] = disk[p]
    BY <2>2, <2>3, ExecutedTypes
  <2>5. DiskOK'
    BY <1>1, <2>1, <2>4 DEF DiskOK
  <2>6. effort' \in 0 .. MaxEffort
    BY <1>1, <2>2, RebalanceAssumption DEF Effort, WorldOK, RebalanceAssumption
  <2>7. WorldOK' /\ TargetOK' /\ ReceivedOK' /\ QueueOK'
    BY <1>1, <2>2, <2>6 DEF WorldOK, TargetOK, ReceivedOK, QueueOK
  <2> QED BY <1>1, <2>4, <2>5, <2>7, PublishedStep DEF TypeInv
<1>17. ASSUME NEW n \in Node, NEW k \in Node, Respond(n, k) PROVE TypeInv'
  <2> DEFINE t == NetworkTarget(reg[n], Cardinality(Node) - 1)
             answer(S) == [type |-> "response", entries |-> Among(S, reg[n].cache),
                           target |-> t, from |-> n, to |-> k]
  <2>1. PICK S \in SUBSET Known(reg[n]) : net' = net (+) SetToBag({answer(S)})
    BY <1>17 DEF Respond
  <2>2. /\ Effort /\ target' = [target EXCEPT ![n] = t]
        /\ reg' = reg /\ disk' = disk /\ temp' = temp /\ received' = received
        /\ queue' = queue /\ fetch' = fetch /\ stored' = stored /\ mixed' = mixed
        /\ peers' = peers /\ up' = up
    BY <1>17 DEF Respond
  <2>3. t \in TargetMin .. TargetLimit
    BY TargetInLimits
  <2>4. t \in Nat
    <3> HIDE DEF t
    <3> QED BY <2>3, ReplicationAssumption DEF ReplicationAssumption
  <2>5. Among(S, reg[n].cache) \in EntrySet
    <3>1. reg[n].cache \in EntrySet
      BY <1>2 DEF RegistryState, EntrySet
    <3> QED BY <3>1, AmongIsEntrySet
  <2>6. answer(S) \in Response
    <3> HIDE DEF t
    <3> QED BY <2>4, <2>5 DEF Response
  <2>7. \A f \in File : answer(S).entries[f] # NoEntry => f \in disk[Author[f]]
    BY <1>1 DEF Among, Published
  <2>8. answer(S).type = "response"
    OBVIOUS
  <2> HIDE DEF answer
  <2>9. IsABag(net') /\ BagToSet(net') = BagToSet(net) \cup {answer(S)}
    BY <1>1, <2>1, BagPlus, BagOfSet DEF NetOK
  <2>10. NetOK' /\ \A m \in Messages' : m \in Messages \/ m = answer(S)
    BY <1>1, <2>6, <2>9 DEF NetOK, Messages
  <2>11. OwnKept /\ LearnsStored /\ SendsBacked
    BY <2>2, <2>7, <2>8, <2>10 DEF OwnKept, LearnsStored, SendsBacked, Backed
  <2>12. effort' \in 0 .. MaxEffort
    BY <1>1, <2>2, RebalanceAssumption DEF Effort, WorldOK, RebalanceAssumption
  <2> HIDE DEF t
  <2>13. RegOK' /\ DiskOK' /\ WorldOK' /\ TargetOK' /\ ReceivedOK' /\ QueueOK'
    BY <1>1, <2>2, <2>3, <2>12 DEF RegOK, DiskOK, WorldOK, TargetOK, ReceivedOK, QueueOK
  <2> QED BY <1>1, <2>10, <2>11, <2>13, PublishedStep DEF TypeInv
<1>18. ASSUME NEW n \in Node, NEW k \in Node, LosePeer(n, k) PROVE TypeInv'
  <2> DEFINE r == RemovePeer(reg[n], k)
  <2>1. /\ disk' = disk /\ temp' = temp /\ up' = up /\ target' = target /\ received' = received
        /\ queue' = queue /\ fetch' = fetch /\ stored' = stored /\ net' = net /\ mixed' = mixed
        /\ peers' = [peers EXCEPT ![n] = @ \ {k}] /\ Learn(n, r)
    BY <1>18 DEF LosePeer
  <2>2. Effort \/ effort' = effort
    BY <1>18 DEF LosePeer
  <2>3. effort' \in 0 .. MaxEffort
    BY <1>1, <2>2, RebalanceAssumption DEF Effort, WorldOK, RebalanceAssumption
  <2>4. r \in RegistryState /\ Known(r) = Known(reg[n])
    BY <1>2, RemoveReplicasSound DEF Sound, RemovePeer
  <2>5. /\ reg' \in [Node -> RegistryState]
        /\ \A p \in Node : \A g \in Known(reg'[p]) : g \in Known(reg[p]) \/ g \in {}
    <3> HIDE DEF r
    <3> QED BY <1>2, <2>1, <2>4, Learnt
  <2>6. OwnKept /\ LearnsStored /\ SendsBacked
    BY <2>1, <2>5 DEF OwnKept, LearnsStored, SendsBacked, Messages
  <2>7. DiskOK' /\ WorldOK' /\ TargetOK' /\ ReceivedOK' /\ QueueOK' /\ NetOK'
    BY <1>1, <2>1, <2>3 DEF DiskOK, WorldOK, TargetOK, ReceivedOK, QueueOK, NetOK, Messages
  <2> QED BY <1>1, <2>5, <2>6, <2>7, PublishedStep DEF TypeInv, RegOK
<1>19. ASSUME \/ \E n \in Node : Leave(n)
              \/ \E n, k \in Node : MeetAgain(n, k)
              \/ UNCHANGED vars
       PROVE  TypeInv'
  <2>1. /\ reg' = reg /\ disk' = disk /\ temp' = temp /\ target' = target /\ received' = received
        /\ queue' = queue /\ fetch' = fetch /\ stored' = stored /\ net' = net /\ mixed' = mixed
    BY <1>19 DEF Leave, MeetAgain, vars
  <2>2. /\ Effort \/ effort' = effort
        /\ peers' = peers \/ \E n, k \in Node : peers' = [peers EXCEPT ![n] = @ \cup {k}]
        /\ up' \subseteq up
    BY <1>19 DEF Leave, MeetAgain, vars
  <2>3. effort' \in 0 .. MaxEffort
    BY <1>1, <2>2, RebalanceAssumption DEF Effort, WorldOK, RebalanceAssumption
  <2>4. peers' \in [Node -> SUBSET Node] /\ up' \subseteq Node
    BY <1>1, <2>2 DEF WorldOK
  <2>5. OwnKept /\ LearnsStored /\ SendsBacked
    BY <2>1 DEF OwnKept, LearnsStored, SendsBacked, Messages
  <2>6. /\ RegOK' /\ DiskOK' /\ WorldOK' /\ TargetOK' /\ ReceivedOK' /\ QueueOK' /\ NetOK'
    BY <1>1, <2>1, <2>3, <2>4
       DEF RegOK, DiskOK, WorldOK, TargetOK, ReceivedOK, QueueOK, NetOK, Messages
  <2> QED BY <1>1, <2>5, <2>6, PublishedStep DEF TypeInv
<1> QED BY <1>4, <1>5, <1>6, <1>7, <1>8, <1>9, <1>10, <1>11, <1>12, <1>13, <1>14, <1>15,
           <1>16, <1>17, <1>18, <1>19 DEF Next, Messages

LEMMA TypeInductive == Spec => []TypeInv
  BY InitTypes, TypeStep, PTL DEF Spec

\* Every variable has its type, the targets their limits, and no temporary
\* replica is of an own file.
THEOREM TypeCorrect == Spec => []TypeOK
  BY TypeInductive, TypeInvIsTypeOK, PTL

-----------------------------------------------------------------------------
(* Deletions keep the level *)

\* What a removal leaves of a count.
LEMMA AfterRemoval ==
  ASSUME NEW r \in RegistryState, NEW S \in SUBSET File, NEW n \in Node, NEW f \in S \cap Known(r)
  PROVE  Count(RemoveReplicas(r, S, n), f) = Less(Count(r, f))
<1>1. f \in File /\ r.cache[f] # NoEntry
  BY DEF Known
<1>2. RemoveReplicas(r, S, n).cache[f] =
        [count |-> Less(r.cache[f].count), nodes |-> r.cache[f].nodes \ {n}]
  BY <1>1 DEF RemoveReplicas
<1> QED BY <1>2 DEF Count

LEMMA ExecutedLevel ==
  ASSUME TypeInv, Band > 0, NEW n \in Node, NEW t \in Nat, Execute(n, t), NEW p \in Node,
         NEW f \in disk[p] \ disk'[p]
  PROVE  p = n /\ Count(reg'[p], f) >= Low(t)
<1>1. reg \in [Node -> RegistryState] /\ disk \in [Node -> SUBSET File]
  BY DEF TypeInv, RegOK, DiskOK
<1>2. PICK S \in SUBSET File : Deletes(n, t, S) /\ Evict(n, S)
  BY <1>1, Rebalanced
<1>3. p = n /\ f \in S
  BY <1>1, <1>2 DEF Evict
<1>4. /\ f \in Known(reg[n])
      /\ Count(reg[n], f) \in Nat /\ Count(reg[n], f) >= t /\ Count(reg[n], f) > 1
  BY <1>2, <1>3 DEF Deletes
<1>5. reg'[n] = RemoveReplicas(reg[n], S, n)
  BY <1>1, <1>2 DEF Evict, Learn
<1>6. Count(reg'[n], f) = Less(Count(reg[n], f))
  <2>1. f \in S \cap Known(reg[n]) /\ reg[n] \in RegistryState
    BY <1>1, <1>3, <1>4
  <2>2. Count(RemoveReplicas(reg[n], S, n), f) = Less(Count(reg[n], f))
    BY <2>1, AfterRemoval
  <2> QED BY <2>2, <1>5
<1>7. \A c \in Nat : c >= t /\ c > 1 => Less(c) >= Low(t)
  BY ReplicationAssumption DEF ReplicationAssumption, Less, Low
<1> QED BY <1>3, <1>4, <1>6, <1>7

\* With a tolerance band, no file that a node deletes becomes under-replicated
\* at the target by which it chose.
THEOREM KeepsLevelHolds == ASSUME Band > 0 PROVE Spec => KeepsLevel
<1> DEFINE Kept == \A n \in Node : \A f \in disk[n] \ disk'[n] : Count(reg'[n], f) >= Low(target'[n])
<1>1. ASSUME TypeInv, [Next]_vars PROVE Kept
  <2> SUFFICES ASSUME NEW p \in Node, NEW f \in disk[p] \ disk'[p]
               PROVE  Count(reg'[p], f) >= Low(target'[p])
    OBVIOUS
  <2>1. disk \in [Node -> SUBSET File] /\ target \in [Node -> TargetMin .. TargetLimit]
    BY <1>1 DEF TypeInv, DiskOK, TargetOK
  <2>2. \A v \in TargetMin .. TargetLimit : v \in Nat
    BY ReplicationAssumption DEF ReplicationAssumption
  <2>3. ASSUME NEW n \in Node, ActRebalance(n) PROVE Count(reg'[p], f) >= Low(target'[p])
    <3> DEFINE t == NetworkTarget(reg[n], Cardinality(Node) - 1)
    <3>1. Execute(n, t) /\ target' = [target EXCEPT ![n] = t]
      BY <2>3 DEF ActRebalance
    <3>2. t \in TargetMin .. TargetLimit
      BY TargetInLimits
    <3> HIDE DEF t
    <3>3. p = n /\ Count(reg'[p], f) >= Low(t)
      BY <1>1, <2>2, <3>1, <3>2, ExecutedLevel
    <3> QED BY <2>1, <3>1, <3>3
  <2>4. ASSUME NEW n \in Node, ActCleanup(n) PROVE Count(reg'[p], f) >= Low(target'[p])
    <3>1. Execute(n, target[n]) /\ target' = target
      BY <2>4 DEF ActCleanup
    <3>2. p = n /\ Count(reg'[p], f) >= Low(target[n])
      BY <1>1, <2>1, <2>2, <3>1, ExecutedLevel
    <3> QED BY <3>1, <3>2
  <2>5. CASE disk' = disk \/ \E n \in Node, g \in File : disk' = [disk EXCEPT ![n] = @ \cup {g}]
    BY <2>1, <2>5
  <2>6. ASSUME NEW g \in File, Publish(g) PROVE \E n \in Node : disk' = [disk EXCEPT ![n] = @ \cup {g}]
    BY <2>6, RebalanceAssumption DEF Publish, RebalanceAssumption
  <2>7. ASSUME NEW m, OnPublish(m) \/ OnReplica(m) \/ OnSolicit(m) \/ OnResponse(m)
        PROVE  disk' = disk
    BY <2>7 DEF OnPublish, OnReplica, OnSolicit, OnResponse, view
  <2>8. ASSUME NEW n \in Node, NEW g \in File, Complete(n, g)
        PROVE  disk' = [disk EXCEPT ![n] = @ \cup {g}]
    BY <2>8 DEF Complete
  <2>9. ASSUME NEW n \in Node, NEW g \in File, CountStored(n, g) \/ Wish(n, g) \/ Solicit(n, g)
        PROVE  disk' = disk
    BY <2>9 DEF CountStored, Wish, Solicit, view
  <2>10. ASSUME NEW n \in Node, Replicate(n) \/ Fails(n) \/ Leave(n) PROVE disk' = disk
    BY <2>10 DEF Replicate, Fails, Leave, view
  <2>11. ASSUME NEW n \in Node, NEW m \in Node, Respond(n, m) \/ LosePeer(n, m) \/ MeetAgain(n, m)
         PROVE  disk' = disk
    BY <2>11 DEF Respond, LosePeer, MeetAgain, view
  <2>12. CASE UNCHANGED vars
    BY <2>5, <2>12 DEF vars
  <2> QED BY <1>1, <2>3, <2>4, <2>5, <2>6, <2>7, <2>8, <2>9, <2>10, <2>11, <2>12 DEF Next
<1> QED BY <1>1, TypeInductive, PTL DEF Spec, KeepsLevel

-----------------------------------------------------------------------------
(* A node knows its own disk *)

\* Node n knows file f, or was told of a replica on it that it may not have.
Acquainted(n, f) == f \in Known(reg[n]) \/ <<n, f>> \in mixed

\* A message is for another node, and names nobody as a host who is not
\* acquainted with the file.
Meant(m) ==
  /\ m.type # "response" => m.from # m.to
  /\ m.type \in {"publish", "announce", "ack"} => Acquainted(m.from, m.file)
  /\ m.type = "response" => \A f \in File : \A n \in m.entries[f].nodes : Acquainted(n, f)

Hosted == \A p \in Node : \A f \in File : \A n \in reg[p].cache[f].nodes : Acquainted(n, f)
Spread == Hosted /\ \A m \in Messages : Meant(m)

\* What a node stores it knows, and but one file waits to be counted.
Home(n) == disk[n] \cup stored[n] \subseteq Known(reg[n]) /\ \A f, g \in stored[n] : f = g

\* SelfKnown, of one node and file.
Self(n, f) ==
  f \in stored[n] \/ <<n, f>> \in mixed \/ (f \in disk[n] <=> n \in reg[n].cache[f].nodes)
Selves(n) == Home(n) /\ n \notin peers[n] /\ \A f \in Known(reg[n]) : Self(n, f)

SelfInv == Spread /\ \A n \in Node : Selves(n)

LEMMA SelfInvIsSelfKnown == SelfInv => SelfKnown
  BY DEF SelfInv, Selves, Self, SelfKnown

\* Nothing is forgotten; new hosts and new messages are of the acquainted.
Grows == mixed \subseteq mixed' /\ \A n \in Node : Known(reg[n]) \subseteq Known(reg'[n])
NewHosts ==
  \A p \in Node : \A f \in File : \A n \in reg'[p].cache[f].nodes :
    n \in reg[p].cache[f].nodes \/ Acquainted(n, f)'
NewMeant == \A m \in Messages' : m \in Messages \/ Meant(m)'

LEMMA SpreadStep ==
  ASSUME TypeInv, Spread, Grows, NewHosts, NewMeant
  PROVE  Spread'
<1>1. \A n \in Node : \A f : Acquainted(n, f) => Acquainted(n, f)'
  BY DEF Grows, Acquainted
<1>2. ASSUME NEW e \in EntrySet, NEW f \in File, NEW n \in e[f].nodes PROVE n \in Node
  <2>1. e[f] \in Entry \/ e[f] = NoEntry
    BY DEF EntrySet
  <2> QED BY <2>1, <1>2 DEF Entry, NoEntry
<1>3. \A p \in Node : reg[p].cache \in EntrySet
  BY DEF TypeInv, RegOK, RegistryState, EntrySet
<1>4. Hosted'
  <2> SUFFICES ASSUME NEW p \in Node, NEW f \in File, NEW n \in reg'[p].cache[f].nodes,
                      n \in reg[p].cache[f].nodes
               PROVE  Acquainted(n, f)'
    BY DEF NewHosts, Hosted
  <2>1. n \in Node
    BY <1>2, <1>3
  <2>2. Acquainted(n, f)
    BY DEF Spread, Hosted
  <2> QED BY <1>1, <2>1, <2>2
<1>5. ASSUME NEW m \in Messages PROVE Meant(m)'
  <2>1. NetOK
    BY DEF TypeInv
  <2>2. /\ m.from \in Node
        /\ m.type = "response" => m.entries \in EntrySet
    BY <2>1, ReceivedNote
  <2>3. Meant(m)
    BY DEF Spread
  <2>4. m.type \in {"publish", "announce", "ack"} => Acquainted(m.from, m.file)'
    BY <1>1, <2>2, <2>3 DEF Meant
  <2>5. m.type = "response" => \A f \in File : \A n \in m.entries[f].nodes : Acquainted(n, f)'
    BY <1>1, <1>2, <2>2, <2>3 DEF Meant
  <2> QED BY <2>3, <2>4, <2>5 DEF Meant
<1> QED BY <1>4, <1>5 DEF Spread, NewMeant

\* A step at one node leaves the others be.
Elsewhere(n) ==
  \A p \in Node \ {n} :
    reg'[p] = reg[p] /\ disk'[p] = disk[p] /\ stored'[p] = stored[p] /\ peers'[p] = peers[p]

LEMMA SelfStep ==
  ASSUME TypeInv, SelfInv, Grows, NewHosts, NewMeant, NEW n, Elsewhere(n), n \in Node => Selves(n)'
  PROVE  SelfInv'
<1>1. Spread'
  BY SpreadStep DEF SelfInv
<1>2. ASSUME NEW p \in Node \ {n} PROVE Selves(p)'
  <2>1. reg'[p] = reg[p] /\ disk'[p] = disk[p] /\ stored'[p] = stored[p] /\ peers'[p] = peers[p]
    BY DEF Elsewhere
  <2>2. Home(p) /\ p \notin peers[p] /\ \A f \in Known(reg[p]) : Self(p, f)
    BY DEF SelfInv, Selves
  <2>3. Home(p)'
    BY <2>1, <2>2 DEF Home
  <2>4. ASSUME NEW f \in Known(reg'[p]) PROVE Self(p, f)'
    <3>1. Self(p, f)
      BY <2>1, <2>2
    <3> QED BY <3>1, <2>1 DEF Self, Grows
  <2> QED BY <2>1, <2>2, <2>3, <2>4 DEF Selves
<1> QED BY <1>1, <1>2 DEF SelfInv

\* What operations leave of the hosts.
LEMMA AfterIncrement ==
  ASSUME NEW r \in RegistryState, NEW f \in File, NEW n \in Node, NEW g \in File
  PROVE  Increment(r, f, n).cache[g].nodes =
           IF g = f /\ f \in Known(r) THEN r.cache[g].nodes \cup {n} ELSE r.cache[g].nodes
<1>1. Increment(r, f, n).cache = [r.cache EXCEPT ![f] = IF @ = NoEntry THEN @
                ELSE [count |-> @.count + 1, nodes |-> @.nodes \cup {n}]]
  BY DEF Increment
<1>2. r.cache \in [File -> Entry \cup {NoEntry}]
  BY DEF RegistryState
<1>3. g # f => Increment(r, f, n).cache[g] = r.cache[g]
  BY <1>1, <1>2
<1>4. r.cache[f] = NoEntry => Increment(r, f, n).cache[f] = r.cache[f]
  BY <1>1, <1>2
<1>5. r.cache[f] # NoEntry =>
        Increment(r, f, n).cache[f] = [count |-> r.cache[f].count + 1, nodes |-> r.cache[f].nodes \cup {n}]
  BY <1>1, <1>2
<1>6. CASE g = f /\ f \in Known(r)
  BY <1>5, <1>6 DEF Known
<1>7. CASE ~(g = f /\ f \in Known(r))
  BY <1>3, <1>4, <1>7 DEF Known
<1> QED BY <1>6, <1>7

LEMMA AfterAdding ==
  ASSUME NEW r \in RegistryState, NEW f \in File, NEW n \in Node, NEW g \in File
  PROVE  /\ AddAll(r, Only(f, 1, {n})).cache[g].nodes = IF g = f THEN {n} ELSE r.cache[g].nodes
         /\ Known(AddAll(r, Only(f, 1, {n}))) = Known(r) \cup {f}
<1> DEFINE e == Only(f, 1, {n})
<1>1. e[f] = [count |-> 1, nodes |-> {n}] /\ \A h \in File : h # f => e[h] = NoEntry
  BY DEF Only
<1>2. [count |-> 1, nodes |-> {n}] # NoEntry
  BY DEF NoEntry
<1>3. e \in EntrySet
  BY OnlyIsEntrySet
<1> HIDE DEF e
<1>4. AddAll(r, e).cache[g] = IF e[g] = NoEntry THEN r.cache[g] ELSE e[g]
  BY DEF AddAll
<1>5. Known(AddAll(r, e)) = Known(r) \cup {f}
  BY <1>1, <1>2, <1>3, KnownAfterAdding
<1>6. CASE g = f
  BY <1>1, <1>2, <1>4, <1>5, <1>6 DEF e
<1>7. CASE g # f
  BY <1>1, <1>4, <1>5, <1>7 DEF e
<1> QED BY <1>6, <1>7

LEMMA AfterMerge ==
  ASSUME NEW r \in RegistryState, NEW e \in EntrySet, NEW g \in File
  PROVE  /\ Merge(r, e).cache[g] = IF g \in Known(r) THEN r.cache[g] ELSE e[g]
         /\ g \in Known(Merge(r, e)) <=> g \in Known(r) \/ e[g] # NoEntry
<1>1. Among(File \ Known(r), e)[g] = IF g \in Known(r) THEN NoEntry ELSE e[g]
  BY DEF Among
<1>2. Merge(r, e).cache[g] = IF Among(File \ Known(r), e)[g] = NoEntry THEN r.cache[g]
                             ELSE Among(File \ Known(r), e)[g]
  BY DEF Merge, AddAll
<1>3. r.cache[g] # NoEntry <=> g \in Known(r)
  BY DEF Known
<1>4. Merge(r, e).cache[g] = IF g \in Known(r) THEN r.cache[g] ELSE e[g]
  BY <1>1, <1>2, <1>3
<1>5. g \in Known(Merge(r, e)) <=> Merge(r, e).cache[g] # NoEntry
  BY DEF Known
<1> QED BY <1>3, <1>4, <1>5

LEMMA HostsAfterRemoval ==
  ASSUME NEW r \in RegistryState, NEW S \in SUBSET File, NEW n \in Node, NEW g \in File
  PROVE  \A h : h \in RemoveReplicas(r, S, n).cache[g].nodes
                 <=> h \in r.cache[g].nodes /\ ~(g \in S /\ h = n)
<1>1. RemoveReplicas(r, S, n).cache[g] =
        IF g \in S /\ r.cache[g] # NoEntry
          THEN [count |-> Less(r.cache[g].count), nodes |-> r.cache[g].nodes \ {n}]
          ELSE r.cache[g]
  BY DEF RemoveReplicas
<1>2. r.cache[g] = NoEntry => r.cache[g].nodes = {}
  BY DEF NoEntry
<1>3. CASE g \in S /\ r.cache[g] # NoEntry
  <2>1. RemoveReplicas(r, S, n).cache[g].nodes = r.cache[g].nodes \ {n}
    BY <1>1, <1>3
  <2> QED BY <2>1, <1>3
<1>4. CASE ~(g \in S /\ r.cache[g] # NoEntry)
  <2>1. RemoveReplicas(r, S, n).cache[g] = r.cache[g]
    BY <1>1, <1>4
  <2> QED BY <2>1, <1>2, <1>4
<1> QED BY <1>3, <1>4

LEMMA LearnsAlone ==
  ASSUME reg \in [Node -> RegistryState], NEW n \in Node, NEW r, Learn(n, r)
  PROVE  reg'[n] = r /\ \A p \in Node \ {n} : reg'[p] = reg[p]
  BY DEF Learn

\* A node that counts a replica, on itself or on who said so.
LEMMA Counts ==
  ASSUME TypeInv, NEW n \in Node, NEW f \in File, NEW h \in Node,
         Learn(n, Increment(reg[n], f, h)), mixed \subseteq mixed'
  PROVE  /\ Grows
         /\ Known(reg'[n]) = Known(reg[n]) /\ \A p \in Node \ {n} : reg'[p] = reg[p]
         /\ \A g \in File : reg'[n].cache[g].nodes =
              IF g = f /\ f \in Known(reg[n]) THEN reg[n].cache[g].nodes \cup {h}
              ELSE reg[n].cache[g].nodes
         /\ Acquainted(h, f)' => NewHosts
<1> DEFINE r == Increment(reg[n], f, h)
<1>1. reg \in [Node -> RegistryState] /\ reg[n] \in RegistryState
  BY DEF TypeInv, RegOK
<1>2. reg'[n] = r /\ \A p \in Node \ {n} : reg'[p] = reg[p]
  BY <1>1, LearnsAlone
<1>3. Known(r) = Known(reg[n])
  BY <1>1, IncrementSound
<1>4. \A g \in File : r.cache[g].nodes =
        IF g = f /\ f \in Known(reg[n]) THEN reg[n].cache[g].nodes \cup {h}
        ELSE reg[n].cache[g].nodes
  BY <1>1, AfterIncrement
<1> HIDE DEF r
<1>5. Grows
  BY <1>2, <1>3 DEF Grows
<1>6. Acquainted(h, f)' => NewHosts
  BY <1>2, <1>4 DEF NewHosts
<1> QED BY <1>2, <1>3, <1>4, <1>5, <1>6

LEMMA SelfInit == Init => SelfInv
<1> SUFFICES ASSUME Init PROVE SelfInv
  OBVIOUS
<1>1. Known(EmptyRegistry) = {} /\ \A f \in File : EmptyRegistry.cache[f].nodes = {}
  BY DEF Known, EmptyRegistry, NoEntry
<1>2. Messages = {}
  BY EmptyIsABag DEF Init, Messages
<1>3. Spread
  BY <1>1, <1>2 DEF Init, Spread, Hosted
<1>4. \A n \in Node : Selves(n)
  BY <1>1 DEF Init, Selves, Home
<1> QED BY <1>3, <1>4 DEF SelfInv

\* A node that counts a file of its disk once more, as two handlers do.
LEMMA CountsOwn ==
  ASSUME TypeInv, SelfInv, NEW n \in Node, NEW f \in disk[n],
         Learn(n, Increment(reg[n], f, n)),
         disk' = disk, stored' = stored, mixed' = mixed, peers' = peers
  PROVE  Grows /\ NewHosts /\ Elsewhere(n) /\ Selves(n)' /\ Acquainted(n, f)'
<1>1. f \in Known(reg[n]) /\ f \in File
  BY DEF SelfInv, Selves, Home, Known
<1>2. /\ Grows /\ (Acquainted(n, f)' => NewHosts)
      /\ Known(reg'[n]) = Known(reg[n]) /\ \A p \in Node \ {n} : reg'[p] = reg[p]
      /\ \A g \in File : reg'[n].cache[g].nodes =
           IF g = f /\ f \in Known(reg[n]) THEN reg[n].cache[g].nodes \cup {n}
           ELSE reg[n].cache[g].nodes
  BY <1>1, Counts
<1>3. Acquainted(n, f)' /\ NewHosts
  BY <1>1, <1>2 DEF Acquainted
<1>4. Elsewhere(n)
  BY <1>2 DEF Elsewhere
<1>5. ASSUME NEW g \in Known(reg[n]) PROVE Self(n, g)'
  <2>1. g \in File /\ Self(n, g)
    BY DEF SelfInv, Selves, Known
  <2>2. CASE g = f
    <3>1. n \in reg'[n].cache[g].nodes
      BY <1>1, <1>2, <2>1, <2>2
    <3> QED BY <3>1, <2>2 DEF Self
  <2>3. CASE g # f
    <3>1. reg'[n].cache[g].nodes = reg[n].cache[g].nodes
      BY <1>2, <2>1, <2>3
    <3> QED BY <3>1, <2>1 DEF Self
  <2> QED BY <2>2, <2>3
<1>6. Selves(n)'
  <2>1. Home(n) /\ n \notin peers[n]
    BY DEF SelfInv, Selves
  <2> QED BY <2>1, <1>2, <1>5 DEF Selves, Home
<1> QED BY <1>2, <1>3, <1>4, <1>6

LEMMA ExecutedSelf ==
  ASSUME TypeInv, SelfInv, NEW n \in Node, NEW t \in Nat, Execute(n, t),
         stored' = stored, mixed' = mixed, peers' = peers
  PROVE  SelfInv'
<1>1. RegOK /\ DiskOK /\ WorldOK /\ NetOK
  BY DEF TypeInv
<1>2. /\ reg \in [Node -> RegistryState] /\ disk \in [Node -> SUBSET File]
      /\ reg[n] \in RegistryState /\ disk[n] \in SUBSET File /\ peers[n] \subseteq Node
  BY <1>1 DEF RegOK, DiskOK, WorldOK
<1>3. /\ \/ reg' = reg /\ disk' = disk
         \/ \E S \in SUBSET File : Deletes(n, t, S) /\ Evict(n, S)
      /\ net' = net \/ \E W \in SUBSET File : Broadcast(n, "solicit", W)
  BY <1>2, Rebalanced
<1>4. Home(n) /\ n \notin peers[n] /\ \A f \in Known(reg[n]) : Self(n, f)
  BY DEF SelfInv, Selves
<1>5. NewMeant
  <2>1. CASE net' = net
    BY <2>1 DEF NewMeant, Messages
  <2>2. CASE \E W \in SUBSET File : Broadcast(n, "solicit", W)
    <3>1. PICK W \in SUBSET File : Broadcast(n, "solicit", W)
      BY <2>2
    <3>2. \A m \in Messages' :
            m \in Messages \/ (m.type = "solicit" /\ m.from = n /\ m.to \in peers[n])
      BY <3>1, <1>1, <1>2, Sent
    <3> QED BY <3>2, <1>4 DEF NewMeant, Meant
  <2> QED BY <2>1, <2>2, <1>3
<1>6. CASE reg' = reg /\ disk' = disk
  <2>1. Grows /\ NewHosts /\ Elsewhere(n)
    BY <1>6 DEF Grows, NewHosts, Elsewhere
  <2>2. Selves(n)'
    BY <1>4, <1>6 DEF Selves, Home, Self
  <2> QED BY <1>5, <2>1, <2>2, SelfStep
<1>7. CASE \E S \in SUBSET File : Deletes(n, t, S) /\ Evict(n, S)
  <2>1. PICK S \in SUBSET File : Deletes(n, t, S) /\ Evict(n, S)
    BY <1>7
  <2> DEFINE r == RemoveReplicas(reg[n], S, n)
  <2>2. Known(r) = Known(reg[n])
    BY <1>2, RemoveReplicasSound
  <2>3. \A g \in File : \A h : h \in r.cache[g].nodes
                                <=> h \in reg[n].cache[g].nodes /\ ~(g \in S /\ h = n)
    BY <1>2, HostsAfterRemoval
  <2>4. Learn(n, r) /\ disk' = [disk EXCEPT ![n] = @ \ S]
    BY <2>1 DEF Evict
  <2> HIDE DEF r
  <2>5. reg'[n] = r /\ \A p \in Node \ {n} : reg'[p] = reg[p]
    BY <1>2, <2>4, LearnsAlone
  <2>6. Grows /\ NewHosts /\ Elsewhere(n)
    BY <1>2, <2>2, <2>3, <2>4, <2>5 DEF Grows, NewHosts, Elsewhere
  <2>7. disk'[n] = disk[n] \ S
    BY <1>2, <2>4
  <2>8. ASSUME NEW g \in Known(reg[n]) PROVE Self(n, g)'
    <3>1. g \in File /\ Self(n, g)
      BY <1>4 DEF Known
    <3>2. n \in r.cache[g].nodes <=> n \in reg[n].cache[g].nodes /\ g \notin S
      BY <2>3, <3>1
    <3> QED BY <2>5, <2>7, <3>1, <3>2 DEF Self
  <2>9. Selves(n)'
    BY <1>4, <2>2, <2>5, <2>7, <2>8 DEF Selves, Home
  <2> QED BY <1>5, <2>6, <2>9, SelfStep
<1> QED BY <1>3, <1>6, <1>7

LEMMA LostSelf ==
  ASSUME TypeInv, SelfInv, NEW n \in Node, NEW k \in Node, LosePeer(n, k)
  PROVE  SelfInv'
<1>1. /\ reg \in [Node -> RegistryState] /\ disk \in [Node -> SUBSET File]
       /\ reg[n] \in RegistryState /\ peers \in [Node -> SUBSET Node] /\ peers[n] \subseteq Node
  BY DEF TypeInv, RegOK, DiskOK, WorldOK
<1>2. Home(n) /\ n \notin peers[n] /\ \A f \in Known(reg[n]) : Self(n, f)
  BY DEF SelfInv, Selves
<1>3. PICK S \in SUBSET File : S = {f \in File : <<f, k>> \in reg[n].reps}
  OBVIOUS
<1> DEFINE r == RemoveReplicas(reg[n], S, k)
<1>4. /\ disk' = disk /\ stored' = stored /\ mixed' = mixed /\ net' = net
      /\ peers' = [peers EXCEPT ![n] = @ \ {k}] /\ k \in peers[n] /\ Learn(n, r)
  BY <1>3 DEF LosePeer, RemovePeer
<1>5. Known(r) = Known(reg[n])
  BY <1>1, RemoveReplicasSound
<1>6. \A g \in File : \A h : h \in r.cache[g].nodes
                              <=> h \in reg[n].cache[g].nodes /\ ~(g \in S /\ h = k)
  BY <1>1, HostsAfterRemoval
<1> HIDE DEF r
<1>7. reg'[n] = r /\ \A p \in Node \ {n} : reg'[p] = reg[p]
  BY <1>1, <1>4, LearnsAlone
<1>8. k # n
  BY <1>2, <1>4
<1>9. Grows /\ NewHosts /\ NewMeant /\ Elsewhere(n)
  BY <1>1, <1>4, <1>5, <1>6, <1>7 DEF Grows, NewHosts, NewMeant, Elsewhere, Messages
<1>10. ASSUME NEW g \in Known(reg[n]) PROVE Self(n, g)'
  <2>1. g \in File /\ Self(n, g)
    BY <1>2 DEF Known
  <2>2. n \in r.cache[g].nodes <=> n \in reg[n].cache[g].nodes
    BY <1>6, <1>8, <2>1
  <2> QED BY <1>4, <1>7, <2>1, <2>2 DEF Self
<1>11. n \notin peers'[n]
  BY <1>1, <1>2, <1>4
<1>12. Selves(n)'
  BY <1>2, <1>4, <1>5, <1>7, <1>10, <1>11 DEF Selves, Home
<1> QED BY <1>9, <1>12, SelfStep

LEMMA SelfInvStep == TypeInv /\ SelfInv /\ [Next]_vars => SelfInv'
<1> SUFFICES ASSUME TypeInv, SelfInv, [Next]_vars PROVE SelfInv'
  OBVIOUS
<1> USE DEF view, world
<1>1. /\ RegOK /\ DiskOK /\ WorldOK /\ NetOK
  BY DEF TypeInv
<1>2. /\ reg \in [Node -> RegistryState] /\ disk \in [Node -> SUBSET File]
      /\ stored \in [Node -> SUBSET File] /\ peers \in [Node -> SUBSET Node]
      /\ \A n \in Node : reg[n] \in RegistryState /\ disk[n] \in SUBSET File
                         /\ peers[n] \subseteq Node
  BY <1>1 DEF RegOK, DiskOK, WorldOK
<1>3. \A n \in Node : /\ Home(n) /\ n \notin peers[n] /\ \A f \in Known(reg[n]) : Self(n, f)
                      /\ disk[n] \subseteq Known(reg[n]) /\ stored[n] \subseteq Known(reg[n])
  BY DEF SelfInv, Selves, Home
<1>4. \A m \in Messages : Meant(m)
  BY DEF SelfInv, Spread
<1>5. ASSUME NEW f \in File, Publish(f) PROVE SelfInv'
  <2> DEFINE n == Author[f]  r == AddAll(reg[n], Only(f, 1, {n}))
  <2>1. n \in Node
    BY RebalanceAssumption DEF RebalanceAssumption
  <2>2. /\ disk' = [disk EXCEPT ![n] = @ \cup {f}] /\ stored' = stored /\ mixed' = mixed
        /\ peers' = peers /\ Learn(n, r) /\ Broadcast(n, "publish", {f})
        /\ f \notin Known(reg[n])
    BY <1>5 DEF Publish
  <2>3. \A g \in File : r.cache[g].nodes = IF g = f THEN {n} ELSE reg[n].cache[g].nodes
    BY <1>2, <2>1, AfterAdding
  <2>4. Known(r) = Known(reg[n]) \cup {f}
    BY <1>2, <2>1, AfterAdding
  <2>5. reg'[n] = r /\ \A p \in Node \ {n} : reg'[p] = reg[p]
    BY <1>2, <2>1, <2>2, LearnsAlone
  <2>6. \A m \in Messages' :
          m \in Messages \/ (m.type = "publish" /\ m.from = n /\ m.file = f /\ m.to \in peers[n])
    BY <1>1, <1>2, <2>1, <2>2, Sent
  <2> HIDE DEF n, r
  <2>7. Grows /\ Acquainted(n, f)'
    BY <2>2, <2>4, <2>5 DEF Grows, Acquainted
  <2>8. NewHosts
    BY <2>3, <2>5, <2>7 DEF NewHosts
  <2>9. NewMeant
    BY <1>3, <2>1, <2>6, <2>7 DEF NewMeant, Meant
  <2>10. Elsewhere(n)
    BY <1>2, <2>2, <2>5 DEF Elsewhere
  <2>11. Home(n)'
    BY <1>2, <1>3, <2>1, <2>2, <2>4, <2>5 DEF Home
  <2>12. ASSUME NEW g \in Known(reg'[n]) PROVE Self(n, g)'
    <3>1. g \in File /\ (g = f \/ g \in Known(reg[n]))
      BY <2>4, <2>5 DEF Known
    <3>2. CASE g = f
      BY <1>2, <2>1, <2>2, <2>3, <2>5, <3>1, <3>2 DEF Self
    <3>3. CASE g # f
      <4>1. Self(n, g)
        BY <1>3, <2>1, <3>1, <3>3
      <4> QED BY <4>1, <1>2, <2>1, <2>2, <2>3, <2>5, <3>1, <3>3 DEF Self
    <3> QED BY <3>2, <3>3
  <2>13. Selves(n)'
    BY <1>3, <2>1, <2>2, <2>11, <2>12 DEF Selves
  <2> QED BY <2>7, <2>8, <2>9, <2>10, <2>13, SelfStep
<1>6. ASSUME NEW m \in Messages, OnPublish(m) PROVE SelfInv'
  <2> DEFINE n == m.to  f == m.file  r == AddAll(reg[n], Only(f, 1, {m.from}))
  <2>1. f \in File /\ m.from \in Node /\ n \in Node /\ m.type = "publish"
    BY <1>1, <1>6, ReceivedNote DEF OnPublish
  <2>2. Messages' \subseteq Messages
    BY <1>1, <1>6, Gone DEF OnPublish
  <2>3. /\ disk' = disk /\ stored' = stored /\ peers' = peers /\ Learn(n, r)
        /\ mixed' = mixed \cup ({n} \X (IF n \in reg[n].cache[f].nodes THEN {f} ELSE {}))
    BY <1>6 DEF OnPublish, Mixes
  <2>4. \A g \in File : r.cache[g].nodes = IF g = f THEN {m.from} ELSE reg[n].cache[g].nodes
    BY <1>2, <2>1, AfterAdding
  <2>5. Known(r) = Known(reg[n]) \cup {f}
    BY <1>2, <2>1, AfterAdding
  <2>6. reg'[n] = r /\ \A p \in Node \ {n} : reg'[p] = reg[p]
    BY <1>2, <2>1, <2>3, LearnsAlone
  <2>7. m.from # n /\ Acquainted(m.from, f)
    BY <1>4, <2>1 DEF Meant
  <2> HIDE DEF n, f, r
  <2>8. Grows
    BY <2>3, <2>5, <2>6 DEF Grows
  <2>9. Acquainted(m.from, f)'
    BY <2>1, <2>7, <2>8 DEF Grows, Acquainted
  <2>10. NewHosts
    BY <2>4, <2>6, <2>9 DEF NewHosts
  <2>11. NewMeant
    BY <2>2 DEF NewMeant
  <2>12. Elsewhere(n)
    BY <2>3, <2>6 DEF Elsewhere
  <2>13. Home(n)'
    BY <1>3, <2>1, <2>3, <2>5, <2>6 DEF Home
  <2>14. n \in reg[n].cache[f].nodes => <<n, f>> \in mixed'
    BY <2>3
  <2>15. ASSUME NEW g \in Known(reg'[n]) PROVE Self(n, g)'
    <3>1. g \in File /\ (g = f \/ g \in Known(reg[n]))
      BY <2>5, <2>6 DEF Known
    <3>2. CASE g = f
      <4>1. n \notin reg'[n].cache[f].nodes
        BY <2>1, <2>4, <2>6, <2>7
      <4>2. f \in Known(reg[n]) => Self(n, f)
        BY <1>3, <2>1
      <4>3. f \notin Known(reg[n]) => f \notin disk[n]
        BY <1>3, <2>1
      <4> QED BY <2>3, <2>14, <3>2, <4>1, <4>2, <4>3 DEF Self
    <3>3. CASE g # f
      <4>1. Self(n, g)
        BY <1>3, <2>1, <3>1, <3>3
      <4> QED BY <4>1, <2>3, <2>4, <2>6, <3>1, <3>3 DEF Self
    <3> QED BY <3>2, <3>3
  <2>16. Selves(n)'
    BY <1>3, <2>1, <2>3, <2>13, <2>15 DEF Selves
  <2> QED BY <2>8, <2>10, <2>11, <2>12, <2>16, SelfStep
<1>7. ASSUME NEW m \in Messages, OnReplica(m) PROVE SelfInv'
  <2> DEFINE n == m.to  f == m.file
  <2>1. f \in File /\ m.from \in Node /\ n \in Node /\ m.type \in {"announce", "ack"}
    BY <1>1, <1>7, ReceivedNote DEF OnReplica
  <2>2. Messages' \subseteq Messages
    BY <1>1, <1>7, Gone DEF OnReplica
  <2>3. /\ disk' = disk /\ stored' = stored /\ peers' = peers /\ mixed' = mixed
        /\ Learn(n, Increment(reg[n], f, m.from))
    BY <1>7 DEF OnReplica
  <2>4. m.from # n /\ Acquainted(m.from, f)
    BY <1>4, <2>1 DEF Meant
  <2> HIDE DEF n, f
  <2>5. /\ Grows /\ (Acquainted(m.from, f)' => NewHosts)
        /\ Known(reg'[n]) = Known(reg[n]) /\ \A p \in Node \ {n} : reg'[p] = reg[p]
        /\ \A g \in File : reg'[n].cache[g].nodes =
             IF g = f /\ f \in Known(reg[n]) THEN reg[n].cache[g].nodes \cup {m.from}
             ELSE reg[n].cache[g].nodes
    BY <2>1, <2>3, Counts
  <2>10. \A g \in File : n \in reg'[n].cache[g].nodes <=> n \in reg[n].cache[g].nodes
    BY <2>4, <2>5
  <2>6. NewHosts
    BY <2>1, <2>4, <2>5 DEF Grows, Acquainted
  <2>7. NewMeant
    BY <2>2 DEF NewMeant
  <2>8. Elsewhere(n)
    BY <2>3, <2>5 DEF Elsewhere
  <2>9. Selves(n)'
    <3>1. ASSUME NEW g \in Known(reg[n]) PROVE Self(n, g)'
      <4>1. g \in File /\ Self(n, g)
        BY <1>3, <2>1 DEF Known
      <4> QED BY <4>1, <2>3, <2>10 DEF Self
    <3> QED BY <3>1, <1>3, <2>1, <2>3, <2>5 DEF Selves, Home
  <2> QED BY <2>5, <2>6, <2>7, <2>8, <2>9, SelfStep
<1>8. ASSUME NEW m \in Messages, OnSolicit(m) PROVE SelfInv'
  <2> DEFINE n == m.to  f == m.file
             ack == [type |-> "ack", file |-> f, from |-> n, to |-> m.from]
  <2>1. f \in File /\ m.from \in Node /\ n \in Node /\ m.type = "solicit"
    BY <1>1, <1>8, ReceivedNote DEF OnSolicit
  <2>2. \/ net' = (net (-) SetToBag({m})) (+) SetToBag({ack}) /\ Mixes(n, {f})
        \/ Received(m) /\ mixed' = mixed
    BY <1>8 DEF OnSolicit
  <2>3. reg' = reg /\ disk' = disk /\ stored' = stored /\ peers' = peers
    BY <1>8 DEF OnSolicit
  <2>4. ack.type = "ack" /\ ack.from = n /\ ack.to = m.from /\ ack.file = f
    OBVIOUS
  <2>5. m.from # n
    BY <1>4, <2>1 DEF Meant
  <2> HIDE DEF n, f, ack
  <2>6. mixed \subseteq mixed'
    BY <2>2 DEF Mixes
  <2>7. Grows /\ NewHosts
    BY <2>3, <2>6 DEF Grows, NewHosts
  <2>8. NewMeant
    <3>1. ASSUME net' = (net (-) SetToBag({m})) (+) SetToBag({ack}), Mixes(n, {f}) PROVE NewMeant
      <4> DEFINE rest == net (-) SetToBag({m})
      <4>1. IsABag(rest) /\ BagToSet(rest) \subseteq BagToSet(net)
        BY <1>1, BagMinus, BagOfSet DEF NetOK
      <4> HIDE DEF rest
      <4>2. BagToSet(net') = BagToSet(rest) \cup {ack}
        BY <3>1, <4>1, BagPlus, BagOfSet DEF rest
      <4>3. Acquainted(n, f)'
        BY <3>1 DEF Mixes, Acquainted
      <4>4. Meant(ack)'
        BY <2>4, <2>5, <4>3 DEF Meant
      <4> QED BY <4>1, <4>2, <4>4 DEF NewMeant, Messages
    <3>2. ASSUME Received(m) PROVE NewMeant
      BY <3>2, <1>1, Gone DEF NewMeant
    <3> QED BY <3>1, <3>2, <2>2
  <2>9. Elsewhere(n)
    BY <2>3 DEF Elsewhere
  <2>10. Selves(n)'
    <3>1. ASSUME NEW g \in Known(reg[n]) PROVE Self(n, g)'
      <4>1. Self(n, g)
        BY <1>3, <2>1
      <4> QED BY <4>1, <2>3, <2>6 DEF Self
    <3> QED BY <3>1, <1>3, <2>1, <2>3 DEF Selves, Home
  <2> QED BY <2>7, <2>8, <2>9, <2>10, SelfStep
<1>9. ASSUME NEW m \in Messages, OnResponse(m) PROVE SelfInv'
  <2> DEFINE n == m.to  e == m.entries
  <2>1. e \in EntrySet /\ n \in Node /\ m.type = "response"
    BY <1>1, <1>9, ReceivedNote DEF OnResponse
  <2>2. Messages' \subseteq Messages
    BY <1>1, <1>9, Gone DEF OnResponse
  <2>3. /\ disk' = disk /\ stored' = stored /\ peers' = peers /\ mixed' = mixed
        /\ Learn(n, Merge(reg[n], e))
    BY <1>9 DEF OnResponse
  <2>4. \A g \in File : \A h \in e[g].nodes : Acquainted(h, g)
    BY <1>4, <2>1 DEF Meant
  <2> HIDE DEF n, e
  <2>5. \A g \in File :
          /\ Merge(reg[n], e).cache[g] = IF g \in Known(reg[n]) THEN reg[n].cache[g] ELSE e[g]
          /\ g \in Known(Merge(reg[n], e)) <=> g \in Known(reg[n]) \/ e[g] # NoEntry
    BY <1>2, <2>1, AfterMerge
  <2>6. reg'[n] = Merge(reg[n], e) /\ \A p \in Node \ {n} : reg'[p] = reg[p]
    BY <1>2, <2>1, <2>3, LearnsAlone
  <2>7. /\ \A g \in File : reg'[n].cache[g] = IF g \in Known(reg[n]) THEN reg[n].cache[g] ELSE e[g]
        /\ Known(reg[n]) \subseteq Known(reg'[n]) /\ Known(reg'[n]) \subseteq File
    BY <2>5, <2>6 DEF Known
  <2>8. Grows
    BY <2>3, <2>6, <2>7 DEF Grows
  <2>9. \A g \in File : \A h \in e[g].nodes : Acquainted(h, g)'
    <3> SUFFICES ASSUME NEW g \in File, NEW h \in e[g].nodes PROVE Acquainted(h, g)'
      OBVIOUS
    <3>1. e[g] \in Entry \/ e[g] = NoEntry
      BY <2>1 DEF EntrySet
    <3>2. h \in Node
      BY <3>1 DEF Entry, NoEntry
    <3> QED BY <2>4, <2>8, <3>2 DEF Acquainted, Grows
  <2>10. NewHosts
    BY <2>6, <2>7, <2>9 DEF NewHosts
  <2>11. NewMeant
    BY <2>2 DEF NewMeant
  <2>12. Elsewhere(n)
    BY <2>3, <2>6 DEF Elsewhere
  <2>13. ASSUME NEW g \in Known(reg'[n]) PROVE Self(n, g)'
    <3>1. g \in File
      BY <2>7
    <3>2. CASE g \in Known(reg[n])
      <4>1. Self(n, g)
        BY <1>3, <2>1, <3>2
      <4> QED BY <4>1, <2>3, <2>7, <3>1, <3>2 DEF Self
    <3>3. CASE g \notin Known(reg[n])
      <4>1. g \notin disk[n]
        BY <1>3, <2>1, <3>3
      <4>2. n \in e[g].nodes => <<n, g>> \in mixed
        BY <2>4, <3>1, <3>3 DEF Acquainted
      <4> QED BY <4>1, <4>2, <2>3, <2>7, <3>1, <3>3 DEF Self
    <3> QED BY <3>2, <3>3
  <2>14. Selves(n)'
    BY <1>3, <2>1, <2>3, <2>7, <2>13 DEF Selves, Home
  <2> QED BY <2>8, <2>10, <2>11, <2>12, <2>14, SelfStep
<1>10. ASSUME NEW n \in Node, NEW f \in File, Complete(n, f) PROVE SelfInv'
  <2>1. /\ reg' = reg /\ net' = net /\ mixed' = mixed /\ peers' = peers
        /\ disk' = [disk EXCEPT ![n] = @ \cup {f}] /\ stored' = [stored EXCEPT ![n] = {f}]
        /\ f \in Known(reg[n]) /\ stored[n] = {}
    BY <1>10 DEF Complete
  <2>2. Grows /\ NewHosts /\ NewMeant /\ Elsewhere(n)
    BY <1>2, <2>1 DEF Grows, NewHosts, NewMeant, Elsewhere, Messages
  <2>3. disk'[n] = disk[n] \cup {f} /\ stored'[n] = {f}
    BY <1>2, <2>1
  <2>4. ASSUME NEW g \in Known(reg[n]) PROVE Self(n, g)'
    <3>1. Self(n, g)
      BY <1>3
    <3> QED BY <3>1, <2>1, <2>3 DEF Self
  <2>5. Selves(n)'
    BY <1>3, <2>1, <2>3, <2>4 DEF Selves, Home
  <2> QED BY <2>2, <2>5, SelfStep
<1>11. ASSUME NEW n \in Node, NEW f \in File, CountStored(n, f) PROVE SelfInv'
  <2>1. /\ disk' = disk /\ stored' = [stored EXCEPT ![n] = {}] /\ f \in stored[n]
        /\ peers' = peers /\ Learn(n, Increment(reg[n], f, n)) /\ Broadcast(n, "announce", {f})
        /\ mixed' = mixed \cup ({n} \X ({f} \ disk[n]))
    BY <1>11 DEF CountStored, Mixes
  <2>2. f \in Known(reg[n]) /\ \A g \in stored[n] : g = f
    BY <1>3, <2>1 DEF Home
  <2>3. /\ Grows /\ (Acquainted(n, f)' => NewHosts)
        /\ Known(reg'[n]) = Known(reg[n]) /\ \A p \in Node \ {n} : reg'[p] = reg[p]
        /\ \A g \in File : reg'[n].cache[g].nodes =
             IF g = f /\ f \in Known(reg[n]) THEN reg[n].cache[g].nodes \cup {n}
             ELSE reg[n].cache[g].nodes
    BY <2>1, Counts
  <2>4. Acquainted(n, f)' /\ NewHosts
    BY <2>2, <2>3 DEF Acquainted
  <2>5. \A m \in Messages' : \/ m \in Messages
                             \/ m.type = "announce" /\ m.from = n /\ m.file = f /\ m.to \in peers[n]
    BY <1>1, <1>2, <2>1, Sent
  <2>6. NewMeant
    BY <1>3, <2>4, <2>5 DEF NewMeant, Meant
  <2>7. Elsewhere(n)
    BY <1>2, <2>1, <2>3 DEF Elsewhere
  <2>8. ASSUME NEW g \in Known(reg[n]) PROVE Self(n, g)'
    <3>1. g \in File /\ Self(n, g)
      BY <1>3 DEF Known
    <3>2. CASE g = f
      <4>1. n \in reg'[n].cache[g].nodes
        BY <2>2, <2>3, <3>1, <3>2
      <4>2. g \in disk[n] \/ <<n, g>> \in mixed'
        BY <2>1, <3>2
      <4> QED BY <4>1, <4>2, <2>1 DEF Self
    <3>3. CASE g # f
      <4>1. g \notin stored[n] /\ reg'[n].cache[g].nodes = reg[n].cache[g].nodes
        BY <2>2, <2>3, <3>1, <3>3
      <4> QED BY <4>1, <3>1, <2>1 DEF Self
    <3> QED BY <3>2, <3>3
  <2>9. Selves(n)'
    BY <1>2, <1>3, <2>1, <2>3, <2>8 DEF Selves, Home
  <2> QED BY <2>3, <2>4, <2>6, <2>7, <2>9, SelfStep
<1>12. ASSUME UNCHANGED <<reg, disk, stored, mixed, net>>,
              \/ peers' = peers
              \/ \E n \in Node : \E k \in Node \ {n} : peers' = [peers EXCEPT ![n] = @ \cup {k}]
       PROVE  SelfInv'
  <2>1. \A n \in Node : n \notin peers'[n]
    BY <1>2, <1>3, <1>12
  <2>2. reg' = reg /\ disk' = disk /\ stored' = stored /\ mixed' = mixed /\ net' = net
    BY <1>12
  <2>3. Grows /\ NewHosts /\ NewMeant
    BY <2>2 DEF Grows, NewHosts, NewMeant, Messages
  <2>4. Spread'
    BY <2>3, SpreadStep DEF SelfInv
  <2>5. \A n \in Node : Selves(n)'
    BY <1>3, <2>1, <2>2 DEF Selves, Home, Self
  <2> QED BY <2>4, <2>5 DEF SelfInv
<1>13. ASSUME NEW n \in Node, Fails(n) \/ Leave(n) \/ \E f \in File : Wish(n, f) PROVE SelfInv'
  <2>1. UNCHANGED <<reg, disk, stored, mixed, net>> /\ peers' = peers
    BY <1>13 DEF Wish, Fails, Leave
  <2> QED BY <2>1, <1>12
<1>14. ASSUME NEW n \in Node, NEW k \in Node, MeetAgain(n, k) PROVE SelfInv'
  <2>1. /\ UNCHANGED <<reg, disk, stored, mixed, net>> /\ k \in Node \ {n}
        /\ peers' = [peers EXCEPT ![n] = @ \cup {k}]
    BY <1>14 DEF MeetAgain
  <2> QED BY <2>1, <1>12
<1>15. ASSUME NEW n \in Node, NEW f \in File, Solicit(n, f) PROVE SelfInv'
  <2>1. disk' = disk /\ stored' = stored /\ mixed' = mixed /\ peers' = peers /\ net' = net
    BY <1>15 DEF Solicit
  <2>2. reg' = reg \/ (f \in disk[n] /\ Learn(n, Increment(reg[n], f, n)))
    BY <1>15 DEF Solicit
  <2>3. CASE reg' = reg
    <3>1. UNCHANGED <<reg, disk, stored, mixed, net>>
      BY <2>1, <2>3
    <3> QED BY <3>1, <2>1, <1>12
  <2>4. CASE f \in disk[n] /\ Learn(n, Increment(reg[n], f, n))
    <3>1. Grows /\ NewHosts /\ Elsewhere(n) /\ Selves(n)'
      BY <2>1, <2>4, CountsOwn
    <3>2. NewMeant
      BY <2>1 DEF NewMeant, Messages
    <3> QED BY <3>1, <3>2, SelfStep
  <2> QED BY <2>2, <2>3, <2>4
<1>16. ASSUME NEW n \in Node, Replicate(n) PROVE SelfInv'
  <2>1. PICK f \in disk[n] : /\ Learn(n, Increment(reg[n], f, n))
                             /\ Broadcast(n, "announce", {f})
    BY <1>16 DEF Replicate
  <2>6. disk' = disk /\ stored' = stored /\ mixed' = mixed /\ peers' = peers
    BY <1>16 DEF Replicate
  <2>2. Grows /\ NewHosts /\ Elsewhere(n) /\ Selves(n)' /\ Acquainted(n, f)'
    BY <2>1, <2>6, CountsOwn
  <2>3. f \in File
    BY <1>2, <2>1
  <2>4. \A m \in Messages' : \/ m \in Messages
                             \/ m.type = "announce" /\ m.from = n /\ m.file = f /\ m.to \in peers[n]
    BY <1>1, <1>2, <2>1, <2>3, Sent
  <2>5. NewMeant
    BY <1>3, <2>2, <2>4 DEF NewMeant, Meant
  <2> QED BY <2>2, <2>5, SelfStep
<1>17. ASSUME NEW n \in Node, ActRebalance(n) PROVE SelfInv'
  <2> DEFINE t == NetworkTarget(reg[n], Cardinality(Node) - 1)
  <2>1. Execute(n, t) /\ stored' = stored /\ mixed' = mixed /\ peers' = peers
    BY <1>17 DEF ActRebalance
  <2>2. t \in TargetMin .. TargetLimit
    BY TargetInLimits
  <2> HIDE DEF t
  <2>3. t \in Nat
    BY <2>2, ReplicationAssumption DEF ReplicationAssumption
  <2> QED BY <2>1, <2>3, ExecutedSelf
<1>18. ASSUME NEW n \in Node, ActCleanup(n) PROVE SelfInv'
  <2>1. Execute(n, target[n]) /\ stored' = stored /\ mixed' = mixed /\ peers' = peers
    BY <1>18 DEF ActCleanup
  <2>2. target[n] \in Nat
    BY ReplicationAssumption DEF TypeInv, TargetOK, ReplicationAssumption
  <2> QED BY <2>1, <2>2, ExecutedSelf
<1>19. ASSUME NEW n \in Node, NEW k \in Node, Respond(n, k) PROVE SelfInv'
  <2> DEFINE t == NetworkTarget(reg[n], Cardinality(Node) - 1)
             answer(S) == [type |-> "response", entries |-> Among(S, reg[n].cache),
                           target |-> t, from |-> n, to |-> k]
  <2>9. PICK S \in SUBSET Known(reg[n]) : net' = net (+) SetToBag({answer(S)})
    BY <1>19 DEF Respond
  <2>1. PICK a : a = answer(S) /\ net' = net (+) SetToBag({a})
    BY <2>9
  <2>2. /\ reg' = reg /\ disk' = disk /\ stored' = stored /\ mixed' = mixed /\ peers' = peers
    BY <1>19 DEF Respond
  <2>3. a.type = "response" /\ \A f \in File : a.entries[f].nodes \subseteq reg[n].cache[f].nodes
    BY <2>1 DEF Among, NoEntry
  <2> HIDE DEF answer
  <2>4. BagToSet(net') = BagToSet(net) \cup {a}
    BY <1>1, <2>1, BagPlus, BagOfSet DEF NetOK
  <2>5. \A f \in File : \A h \in reg[n].cache[f].nodes : Acquainted(h, f)'
    BY <2>2 DEF SelfInv, Spread, Hosted, Acquainted
  <2>10. \A f \in File : \A h \in a.entries[f].nodes : Acquainted(h, f)'
    BY <2>3, <2>5
  <2>6. Meant(a)'
    BY <2>3, <2>10 DEF Meant
  <2>7. Grows /\ NewHosts /\ NewMeant /\ Elsewhere(n)
    BY <2>2, <2>4, <2>6 DEF Grows, NewHosts, NewMeant, Elsewhere, Messages
  <2>8. Selves(n)'
    BY <1>3, <2>2 DEF Selves, Home, Self
  <2> QED BY <2>7, <2>8, SelfStep
<1>20. ASSUME NEW n \in Node, NEW k \in Node, LosePeer(n, k) PROVE SelfInv'
  BY <1>20, LostSelf
<1>21. CASE UNCHANGED vars
  BY <1>12, <1>21 DEF vars
<1>22. ASSUME NEW m \in Messages, OnPublish(m) \/ OnReplica(m) \/ OnSolicit(m) \/ OnResponse(m)
       PROVE  SelfInv'
  BY <1>6, <1>7, <1>8, <1>9, <1>22
<1>23. ASSUME NEW n \in Node, NEW f \in File,
              Complete(n, f) \/ CountStored(n, f) \/ Wish(n, f) \/ Solicit(n, f)
       PROVE  SelfInv'
  BY <1>10, <1>11, <1>13, <1>15, <1>23
<1>24. ASSUME NEW n \in Node,
              Replicate(n) \/ Fails(n) \/ ActRebalance(n) \/ ActCleanup(n) \/ Leave(n)
       PROVE  SelfInv'
  BY <1>13, <1>16, <1>17, <1>18, <1>24
<1>25. ASSUME NEW n \in Node, NEW k \in Node, Respond(n, k) \/ LosePeer(n, k) \/ MeetAgain(n, k)
       PROVE  SelfInv'
  BY <1>14, <1>19, <1>20, <1>25
<1>26. ASSUME Next PROVE SelfInv'
  BY <1>5, <1>22, <1>23, <1>24, <1>25, <1>26 DEF Next, Messages
<1> QED BY <1>21, <1>26

\* A node lists itself as a host of the files it stores and of no other, but
\* for those whose storing is not yet counted and those of which its registry
\* was told otherwise.
THEOREM SelfKnownHolds == Spec => []SelfKnown
<1>1. Spec => []SelfInv
  BY SelfInit, SelfInvStep, TypeInductive, PTL DEF Spec
<1> QED BY <1>1, SelfInvIsSelfKnown, PTL

-----------------------------------------------------------------------------
(* What select_files_to_delete ends with *)

\* The files before place i of a list that may go, and the places whose file
\* is taken.
Before(s, r, own, i) == {f \in {s[j] : j \in 1 .. i - 1} : MayGo(r, own, f)}
Taken(s, r, own, needed, i) ==
  MayGo(r, own, s[i]) /\ (Before(s, r, own, i) = {} \/ Total(Before(s, r, own, i)) < needed)


\* The files of a list that may go.
Listed(s, r, own) == {f \in File : MayGo(r, own, f) /\ \E i \in DOMAIN s : s[i] = f}

\* Of the files that can go, those of S are enough for the bytes needed or all
\* there are, and no file more, though one at least.
Enough(S, can, needed) ==
  /\ S \subseteq can
  /\ Total(S) < needed => S = can
  /\ can # {} => S # {}
  /\ S # {} => \E f \in S : Total(S \ {f}) < Max({needed, 1})

LEMMA BeforeGrows ==
  ASSUME NEW s \in Seq(File), NEW r, NEW own, NEW i \in DOMAIN s
  PROVE  /\ Before(s, r, own, i) \in SUBSET File
         /\ \A j \in DOMAIN s : j <= i => Before(s, r, own, j) \subseteq Before(s, r, own, i)
         /\ \A j \in DOMAIN s : j < i /\ MayGo(r, own, s[j]) => s[j] \in Before(s, r, own, i)
<1>1. \A j \in 1 .. i - 1 : j \in DOMAIN s
  OBVIOUS
<1>2. \A j \in DOMAIN s : j <= i => 1 .. j - 1 \subseteq 1 .. i - 1
  OBVIOUS
<1>3. \A j \in DOMAIN s : j < i => j \in 1 .. i - 1
  OBVIOUS
<1>4. \A j \in DOMAIN s : s[j] \in File
  OBVIOUS
<1> QED BY <1>1, <1>2, <1>3, <1>4, Zenon DEF Before

LEMMA TakenOf ==
  ASSUME NEW s, NEW r, NEW own, NEW needed
  PROVE  \A f : f \in Deleting(s, r, own, needed)
                <=> \E i \in DOMAIN s : f = s[i] /\ Taken(s, r, own, needed, i)
  BY DEF Deleting, Taken, Before

\* Of two places whose files may go, the later is not taken if the earlier is
\* not.
LEMMA TakenFirst ==
  ASSUME NEW s \in Seq(File), NEW r, NEW own, NEW needed \in Nat,
         NEW i \in DOMAIN s, NEW j \in DOMAIN s, Taken(s, r, own, needed, i),
         MayGo(r, own, s[j]), ~Taken(s, r, own, needed, j)
  PROVE  i < j
<1> DEFINE A == Before(s, r, own, i)  B == Before(s, r, own, j)
<1>1. A = {} \/ Total(A) < needed
  BY DEF Taken
<1>2. B # {} /\ ~(Total(B) < needed)
  BY DEF Taken
<1>3. A \in SUBSET File /\ (j <= i => B \subseteq A)
  BY BeforeGrows
<1>4. i \in Nat /\ j \in Nat
  OBVIOUS
<1> HIDE DEF A, B
<1>5. ASSUME j <= i PROVE FALSE
  <2>1. B \subseteq A /\ A # {} /\ B \in SUBSET File
    BY <1>2, <1>3, <1>5
  <2>2. Total(A) \in Nat /\ Total(B) \in Nat /\ Total(B) <= Total(A)
    BY <1>3, <2>1, TotalFacts
  <2> QED BY <1>1, <1>2, <2>1, <2>2
<1> QED BY <1>4, <1>5

\* A list of files is taken from the front, until enough is freed.
LEMMA WalkEnds ==
  ASSUME NEW s \in Seq(File), NEW r, NEW own, NEW needed \in Nat,
         NEW S, S = Deleting(s, r, own, needed)
  PROVE  /\ Enough(S, Listed(s, r, own), needed)
         /\ \A f \in S, g \in Listed(s, r, own) \ S :
              \E i, j \in DOMAIN s : i < j /\ s[i] = f /\ s[j] = g
<1> DEFINE can  == Listed(s, r, own)
           T(i) == Taken(s, r, own, needed, i)
           B(i) == Before(s, r, own, i)
<1>1. \A f : f \in S <=> \E i \in DOMAIN s : f = s[i] /\ T(i)
  BY TakenOf
<1>2. \A i \in DOMAIN s : T(i) <=> MayGo(r, own, s[i]) /\ (B(i) = {} \/ Total(B(i)) < needed)
  BY DEF Taken
<1>3. \A i \in DOMAIN s : s[i] \in File
  OBVIOUS
<1>4. \A f : f \in can <=> \E i \in DOMAIN s : f = s[i] /\ MayGo(r, own, s[i])
  BY <1>3 DEF Listed
<1>5. \A i \in DOMAIN s :
        /\ B(i) \in SUBSET File
        /\ \A j \in DOMAIN s : j < i /\ MayGo(r, own, s[j]) => s[j] \in B(i)
  BY BeforeGrows
<1>6. \A i, j \in DOMAIN s : T(i) /\ MayGo(r, own, s[j]) /\ ~T(j) => i < j
  BY TakenFirst
<1>7. \A i \in DOMAIN s : i \in Nat /\ i <= Len(s)
  OBVIOUS
<1>8. \A i \in DOMAIN s : \A f \in B(i) : \E j \in DOMAIN s : j < i /\ s[j] = f /\ MayGo(r, own, f)
  <2> SUFFICES ASSUME NEW i \in DOMAIN s, NEW f \in B(i)
               PROVE  \E j \in DOMAIN s : j < i /\ s[j] = f /\ MayGo(r, own, f)
    OBVIOUS
  <2>1. PICK j \in 1 .. i - 1 : s[j] = f /\ MayGo(r, own, f)
    BY DEF Before
  <2>2. j \in DOMAIN s /\ j < i
    OBVIOUS
  <2> QED BY <2>1, <2>2
<1> HIDE DEF can, T, B
<1>9. S \subseteq can
  BY <1>1, <1>2, <1>4
<1>10. can \in SUBSET File
  BY <1>3, <1>4
<1>11. ASSUME NEW f \in S, NEW g \in can \ S
       PROVE  \E i, j \in DOMAIN s : i < j /\ s[i] = f /\ s[j] = g
  <2>1. PICK i \in DOMAIN s : f = s[i] /\ T(i)
    BY <1>1
  <2>2. PICK j \in DOMAIN s : g = s[j] /\ MayGo(r, own, s[j])
    BY <1>4
  <2>3. ~T(j)
    BY <1>1, <2>2
  <2>4. i < j
    BY <1>6, <2>1, <2>2, <2>3
  <2> QED BY <2>1, <2>2, <2>4
<1>12. ASSUME NEW g \in can \ S PROVE S # {} /\ ~(Total(S) < needed)
  <2> DEFINE P == {i \in DOMAIN s : MayGo(r, own, s[i]) /\ ~T(i)}
  <2>1. P \in SUBSET Nat /\ P # {}
    BY <1>1, <1>4, <1>7
  <2>2. PICK i \in P : \A j \in P : i <= j
    <3> HIDE DEF P
    <3> QED BY <2>1, LeastNumber
  <2>3. i \in DOMAIN s /\ B(i) # {} /\ ~(Total(B(i)) < needed)
    BY <1>2
  <2>4. B(i) \subseteq S
    <3> SUFFICES ASSUME NEW f \in B(i) PROVE f \in S
      OBVIOUS
    <3>1. PICK j \in DOMAIN s : j < i /\ s[j] = f /\ MayGo(r, own, f)
      BY <1>8, <2>3
    <3>2. T(j)
      <4>1. j \notin P
        BY <1>7, <2>2, <2>3, <3>1
      <4> QED BY <4>1, <3>1
    <3> QED BY <1>1, <3>1, <3>2
  <2>5. S \in SUBSET File
    BY <1>9, <1>10
  <2>6. Total(S) \in Nat /\ Total(B(i)) \in Nat /\ Total(B(i)) <= Total(S)
    BY <2>3, <2>4, <2>5, <1>5, TotalFacts
  <2> QED BY <2>3, <2>4, <2>6
<1>13. can # {} => S # {}
  BY <1>12
<1>14. Total(S) < needed => S = can
  BY <1>9, <1>12
<1>15. ASSUME S # {} PROVE \E f \in S : Total(S \ {f}) < Max({needed, 1})
  <2> DEFINE P == {i \in DOMAIN s : T(i)}
  <2>1. P \in SUBSET Nat /\ P # {} /\ Len(s) \in Nat /\ \A i \in P : i <= Len(s)
    BY <1>1, <1>7, <1>15
  <2>2. PICK k \in P : \A i \in P : i <= k
    <3> HIDE DEF P
    <3> QED BY <2>1, GreatestNumber
  <2>3. k \in DOMAIN s /\ s[k] \in S /\ (B(k) = {} \/ Total(B(k)) < needed)
    BY <1>1, <1>2
  <2>4. S \ {s[k]} \subseteq B(k)
    <3> SUFFICES ASSUME NEW f \in S, f # s[k] PROVE f \in B(k)
      OBVIOUS
    <3>1. PICK i \in DOMAIN s : f = s[i] /\ T(i)
      BY <1>1
    <3>2. i <= k /\ i # k
      BY <2>2, <3>1
    <3>3. i < k /\ MayGo(r, own, s[i])
      BY <1>2, <1>7, <2>3, <3>1, <3>2
    <3> QED BY <1>5, <2>3, <3>1, <3>3
  <2> DEFINE rest == S \ {s[k]}
  <2>5. B(k) \in SUBSET File /\ rest \in SUBSET B(k)
    BY <1>5, <2>3, <2>4
  <2> HIDE DEF rest
  <2>6. Total(B(k)) \in Nat /\ Total(rest) \in Nat /\ Total(rest) <= Total(B(k)) /\ Total({}) = 0
    BY <2>5, TotalFacts
  <2>7. Total(rest) < needed \/ Total(rest) = 0
    <3>1. CASE B(k) = {}
      <4>1. rest = {}
        BY <2>5, <3>1
      <4> QED BY <2>6, <4>1
    <3>2. CASE Total(B(k)) < needed
      BY <2>6, <3>2
    <3> QED BY <2>3, <3>1, <3>2
  <2>8. Max({needed, 1}) = IF needed >= 1 THEN needed ELSE 1
    BY MaxOfTwo
  <2>9. Total(rest) < Max({needed, 1})
    BY <2>6, <2>7, <2>8
  <2> QED BY <2>3, <2>9 DEF rest
<1> QED BY <1>9, <1>11, <1>13, <1>14, <1>15 DEF Enough, can

\* An order of a set has all its members.
LEMMA OrderHasAll ==
  ASSUME NEW S \in SUBSET File, NEW s \in SetToSeqs(S)
  PROVE  \A f \in S : \E i \in DOMAIN s : s[i] = f
<1> DEFINE c == Cardinality(S)
<1>1. IsFiniteSet(S) /\ c \in Nat
  BY FS_Subset, FS_CardinalityType, ReplicationAssumption DEF ReplicationAssumption
<1>2. s \in [1 .. c -> S] /\ \A i, j \in 1 .. c : i # j => s[i] # s[j]
  BY DEF SetToSeqs
<1>3. IsFiniteSet(1 .. c) /\ Cardinality(1 .. c) = c
  BY <1>1, FS_Interval
<1> DEFINE D == 1 .. c
<1>4. D = DOMAIN s /\ s \in [D -> S] /\ \A i, j \in D : i # j => s[i] # s[j]
  BY <1>2
<1>5. Cardinality(D) = Cardinality(S)
  BY <1>3
<1> HIDE DEF D
<1>6. s \in Injection(D, S)
  BY <1>4 DEF Injection, IsInjective
<1>7. s \in Surjection(D, S)
  BY <1>1, <1>5, <1>6, FS_Injection
<1> QED BY <1>4, <1>7 DEF Surjection

\* The three lists have all that is over-replicated, at the upper edge and, if
\* it is asked for, at the target.
LEMMA ListsHaveAll ==
  ASSUME NEW r, NEW D, NEW own, NEW t, NEW needed, NEW o, NEW h, NEW e,
         Lists(r, D, own, t, needed, o, h, e),
         NEW f, \/ f \in OverReplicated(r, D, t) \cup AtTargetHigh(r, D, t)
                \/ f \in AtTargetExact(r, D, own, t) /\ (Critical(r, t) \/ needed > 0)
  PROVE  \E k \in DOMAIN (o \o h \o e) : (o \o h \o e)[k] = f
<1> DEFINE E == IF Critical(r, t) \/ needed > 0 THEN AtTargetExact(r, D, own, t) ELSE {}
<1>1. o \in SetToSeqs(OverReplicated(r, D, t))
  BY DEF Lists, ByCount, Sorted
<1>2. h \in SetToSeqs(AtTargetHigh(r, D, t))
  BY DEF Lists
<1>3. e \in SetToSeqs(E)
  BY DEF Lists
<1>4. /\ OverReplicated(r, D, t) \in SUBSET File /\ AtTargetHigh(r, D, t) \in SUBSET File
      /\ E \in SUBSET File
  BY DEF OverReplicated, AtTargetHigh, AtTargetExact, Known
<1>5. f \in OverReplicated(r, D, t) \/ f \in AtTargetHigh(r, D, t) \/ f \in E
  OBVIOUS
<1> HIDE DEF E
<1>6. o \in Seq(File) /\ h \in Seq(File) /\ e \in Seq(File)
  BY PlacesInLists
<1>7. /\ Len(o \o h \o e) = Len(o) + Len(h) + Len(e) /\ o \o h \o e \in Seq(File)
      /\ \A k \in 1 .. Len(o) + Len(h) + Len(e) :
           (o \o h \o e)[k] = IF k <= Len(o) THEN o[k]
                              ELSE IF k <= Len(o) + Len(h) THEN h[k - Len(o)]
                              ELSE e[k - (Len(o) + Len(h))]
  BY <1>6, Joined
<1> DEFINE s == o \o h \o e
<1>8. Len(o) \in Nat /\ Len(h) \in Nat /\ Len(e) \in Nat
  BY <1>6
<1>9. \A k \in 1 .. Len(o) + Len(h) + Len(e) : k \in DOMAIN s
  BY <1>7
<1>10. CASE f \in OverReplicated(r, D, t)
  <2>1. PICK i \in DOMAIN o : o[i] = f
    BY <1>1, <1>4, <1>10, OrderHasAll
  <2>2. i \in 1 .. Len(o) + Len(h) + Len(e) /\ i <= Len(o)
    BY <1>6, <1>8
  <2> QED BY <2>1, <2>2, <1>7, <1>9
<1>11. CASE f \in AtTargetHigh(r, D, t)
  <2>1. PICK i \in DOMAIN h : h[i] = f
    BY <1>2, <1>4, <1>11, OrderHasAll
  <2> DEFINE k == Len(o) + i
  <2>2. /\ k \in 1 .. Len(o) + Len(h) + Len(e) /\ ~(k <= Len(o))
        /\ k <= Len(o) + Len(h) /\ k - Len(o) = i
    BY <1>6, <1>8
  <2> HIDE DEF k
  <2> QED BY <2>1, <2>2, <1>7, <1>9
<1>12. CASE f \in E
  <2>1. PICK i \in DOMAIN e : e[i] = f
    BY <1>3, <1>4, <1>12, OrderHasAll
  <2> DEFINE k == Len(o) + Len(h) + i
  <2>2. /\ k \in 1 .. Len(o) + Len(h) + Len(e) /\ ~(k <= Len(o))
        /\ ~(k <= Len(o) + Len(h)) /\ k - (Len(o) + Len(h)) = i
    BY <1>6, <1>8
  <2> HIDE DEF k
  <2> QED BY <2>1, <2>2, <1>7, <1>9
<1> QED BY <1>5, <1>10, <1>11, <1>12

\* The files that can be deleted and their priorities.
CanGo(r, D, own, t, needed) ==
  LET may == {f \in (Known(r) \cap D) \ own : Count(r, f) > 1} IN
    {f \in may : Count(r, f) - t >= Band}
      \cup {f \in may : Count(r, f) - t = 0 /\ (needed > 0 \/ Critical(r, t))}
Rank(r, t, f) == Min({Count(r, f) - t, Band + 1})

\* What is selected, in every order: of those that can go, enough from the top.
LEMMA SelectionIsJust ==
  ASSUME NEW r \in RegistryState, NEW D \in SUBSET File, NEW own, NEW t \in Nat,
         NEW needed \in Nat, NEW S \in FilesToDelete(r, D, own, t, needed)
  PROVE  /\ Enough(S, CanGo(r, D, own, t, needed), needed)
         /\ \A f \in S, g \in CanGo(r, D, own, t, needed) \ S : Rank(r, t, g) <= Rank(r, t, f)
<1> DEFINE may  == {f \in (Known(r) \cap D) \ own : Count(r, f) > 1}
           over(f) == Count(r, f) - t
           can  == {f \in may : over(f) >= Band}
                     \cup {f \in may : over(f) = 0 /\ (needed > 0 \/ Critical(r, t))}
           rank(f) == Rank(r, t, f)
           E == IF Critical(r, t) \/ needed > 0 THEN AtTargetExact(r, D, own, t) ELSE {}
<1>1. PICK o \in ByCount(OverReplicated(r, D, t), r),
           h \in SetToSeqs(AtTargetHigh(r, D, t)), e \in SetToSeqs(E) :
           S = Deleting(o \o h \o e, r, own, needed)
  BY DEF FilesToDelete
<1>2. Lists(r, D, own, t, needed, o, h, e)
  BY <1>1 DEF Lists
<1> DEFINE s == o \o h \o e
           all == Listed(s, r, own)
<1>3. \A f \in Known(r) : f \in File /\ Count(r, f) \in Nat
  BY DEF Known, Count, RegistryState, Entry
<1>4. Band \in Nat
  BY ReplicationAssumption DEF ReplicationAssumption
<1>5. s \in Seq(File) /\ Len(o) \in Nat /\ Len(h) \in Nat
  BY <1>2, PlacesInLists
<1>6. \A k \in DOMAIN s :
        \/ k <= Len(o) /\ s[k] \in OverReplicated(r, D, t)
        \/ k > Len(o) /\ k <= Len(o) + Len(h) /\ s[k] \in AtTargetHigh(r, D, t)
        \/ /\ k > Len(o) + Len(h) /\ s[k] \in AtTargetExact(r, D, own, t)
           /\ Critical(r, t) \/ needed > 0
  BY <1>2, PlacesInLists
<1>7. \A f : \/ f \in OverReplicated(r, D, t) \cup AtTargetHigh(r, D, t)
             \/ f \in AtTargetExact(r, D, own, t) /\ (Critical(r, t) \/ needed > 0)
             => \E k \in DOMAIN s : s[k] = f
  BY <1>2, ListsHaveAll
<1> HIDE DEF s
<1>8. /\ \A f : f \in OverReplicated(r, D, t) <=> f \in Known(r) \cap D /\ over(f) > Band
      /\ \A f : f \in AtTargetHigh(r, D, t) <=> f \in Known(r) \cap D /\ over(f) = Band
      /\ \A f : f \in AtTargetExact(r, D, own, t) <=> f \in (Known(r) \cap D) \ own /\ over(f) = 0
  BY <1>3, <1>4 DEF OverReplicated, AtTargetHigh, AtTargetExact, High
<1>9. \A f : MayGo(r, own, f) <=> f \notin own /\ Count(r, f) > 1
  BY DEF MayGo
<1>10. \A f \in Known(r) : over(f) \in Int
  BY <1>3
<1>11. all = can
  <2>1. ASSUME NEW f \in all PROVE f \in can
    <3>1. PICK k \in DOMAIN s : s[k] = f /\ MayGo(r, own, f)
      BY DEF Listed
    <3>2. \/ f \in Known(r) \cap D /\ (over(f) > Band \/ over(f) = Band)
          \/ f \in Known(r) \cap D /\ over(f) = 0 /\ (needed > 0 \/ Critical(r, t))
      BY <1>6, <1>8, <3>1
    <3>3. f \in may
      BY <1>9, <3>1, <3>2
    <3>4. over(f) > Band \/ over(f) = Band => over(f) >= Band
      BY <1>4, <1>10, <3>3
    <3> QED BY <3>2, <3>3, <3>4
  <2>2. ASSUME NEW f \in can PROVE f \in all
    <3>1. f \in may /\ f \in Known(r) \cap D /\ f \notin own /\ MayGo(r, own, f) /\ f \in File
      BY <1>3, <1>9
    <3>2. over(f) >= Band => over(f) > Band \/ over(f) = Band
      BY <1>4, <1>10, <3>1
    <3>3. \E k \in DOMAIN s : s[k] = f
      BY <1>7, <1>8, <3>1, <3>2
    <3> QED BY <3>1, <3>3 DEF Listed
  <2> QED BY <2>1, <2>2
<1>12. \A c \in Int : Min({c, Band + 1}) = IF c <= Band + 1 THEN c ELSE Band + 1
  BY <1>4, MinOfTwo
<1>13. ASSUME NEW i \in DOMAIN s, NEW j \in DOMAIN s, i < j PROVE rank(s[j]) <= rank(s[i])
  <2>1. i \in Nat /\ j \in Nat
    BY <1>5
  <2>2. s[i] \in Known(r) /\ s[j] \in Known(r)
    BY <1>6 DEF OverReplicated, AtTargetHigh, AtTargetExact
  <2>3. over(s[i]) \in Int /\ over(s[j]) \in Int
    BY <1>10, <2>2
  <2>4. \A k \in DOMAIN s : \/ k <= Len(o) /\ over(s[k]) > Band
                            \/ k > Len(o) /\ k <= Len(o) + Len(h) /\ over(s[k]) = Band
                            \/ k > Len(o) + Len(h) /\ over(s[k]) = 0
    BY <1>6, <1>8
  <2> DEFINE x == over(s[i])  y == over(s[j])
  <2>5. /\ \/ i <= Len(o) /\ x > Band
           \/ i > Len(o) /\ i <= Len(o) + Len(h) /\ x = Band
           \/ i > Len(o) + Len(h) /\ x = 0
        /\ \/ j <= Len(o) /\ y > Band
           \/ j > Len(o) /\ j <= Len(o) + Len(h) /\ y = Band
           \/ j > Len(o) + Len(h) /\ y = 0
    BY <2>4
  <2>6. /\ rank(s[i]) = IF x <= Band + 1 THEN x ELSE Band + 1
        /\ rank(s[j]) = IF y <= Band + 1 THEN y ELSE Band + 1
    BY <1>12, <2>3 DEF Rank
  <2> HIDE DEF x, y, rank
  <2>7. x \in Int /\ y \in Int
    BY <2>3 DEF x, y
  <2> QED BY <1>4, <1>5, <1>13, <2>1, <2>5, <2>6, <2>7
<1>14. S = Deleting(s, r, own, needed)
  BY <1>1 DEF s
<1> HIDE DEF all, can, rank
<1>15. /\ Enough(S, all, needed)
       /\ \A f \in S, g \in all \ S : \E i, j \in DOMAIN s : i < j /\ s[i] = f /\ s[j] = g
  BY <1>5, <1>14, WalkEnds DEF all
<1>16. \A f \in S, g \in can \ S : rank(g) <= rank(f)
  <2> SUFFICES ASSUME NEW f \in S, NEW g \in can \ S PROVE rank(g) <= rank(f)
    OBVIOUS
  <2>1. PICK i \in DOMAIN s, j \in DOMAIN s : i < j /\ s[i] = f /\ s[j] = g
    BY <1>11, <1>15
  <2> QED BY <2>1, <1>13
<1>17. can = CanGo(r, D, own, t, needed)
  BY DEF can, CanGo
<1> QED BY <1>11, <1>15, <1>16, <1>17 DEF rank

LEMMA TypeInvDeletes == TypeInv => DeletesJustEnough
<1> SUFFICES ASSUME TypeInv PROVE DeletesJustEnough
  OBVIOUS
<1>1. ASSUME NEW n \in Node, NEW needed \in 0 .. Total(File),
             NEW S \in FilesToDelete(reg[n], disk[n], Own(n), target[n], needed)
      PROVE  /\ Enough(S, CanGo(reg[n], disk[n], Own(n), target[n], needed), needed)
             /\ \A f \in S, g \in CanGo(reg[n], disk[n], Own(n), target[n], needed) \ S :
                  Rank(reg[n], target[n], g) <= Rank(reg[n], target[n], f)
  <2>1. reg[n] \in RegistryState /\ disk[n] \in SUBSET File
    BY DEF TypeInv, RegOK, DiskOK
  <2>2. target[n] \in Nat
    BY ReplicationAssumption DEF TypeInv, TargetOK, ReplicationAssumption
  <2>3. needed \in Nat
    OBVIOUS
  <2> QED BY <2>1, <2>2, <2>3, SelectionIsJust
<1>2. ASSUME NEW n \in Node, NEW needed \in 0 .. Total(File),
             NEW S \in FilesToDelete(reg[n], disk[n], Own(n), target[n], needed)
      PROVE  LET can == CanGo(reg[n], disk[n], Own(n), target[n], needed) IN
               /\ S \subseteq can
               /\ Total(S) < needed => S = can
               /\ can # {} => S # {}
               /\ \A f \in S, g \in can \ S : Rank(reg[n], target[n], g) <= Rank(reg[n], target[n], f)
               /\ S # {} => \E f \in S : Total(S \ {f}) < Max({needed, 1})
  BY <1>1 DEF Enough
<1> QED BY <1>2, Zenon DEF DeletesJustEnough, CanGo, Rank

\* A deletion takes, in every order of the cache and for any number of bytes
\* that may be needed, neither own files nor last replicas, enough or all there
\* is, no file more than that, and none of a lower priority while there is one
\* of a higher.
THEOREM DeletesJustEnoughHolds == Spec => []DeletesJustEnough
  BY TypeInductive, TypeInvDeletes, PTL

=============================================================================
