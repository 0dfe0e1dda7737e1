---------------------------- MODULE Replication -----------------------------
(***************************************************************************)
(* What ReplicationManager computes, src/Server/replication.py: the target *)
(* of the network, which files are under or over it, and which to ask the  *)
(* peers to replicate or to delete.  Operators only, of one node's         *)
(* registry r, the files on its disk and its target t; module Rebalance    *)
(* lets several nodes act on them.                                         *)
(*                                                                         *)
(* The code's lists are in the order of the cache, and sorted() keeps it   *)
(* among equals: here that order is any order, so a selection has several  *)
(* outcomes.                                                               *)
(***************************************************************************)
EXTENDS Registry, SequencesExt

CONSTANTS
  Size,         \* bytes of each file
  PeerStorage,  \* what each peer is taken to contribute: 500 MB
  TargetMin, TargetMax, \* network_target_min and network_target_max
  Band          \* replica_tolerance_band

ASSUME ReplicationAssumption ==
  /\ IsFiniteSet(File) /\ Size \in [File -> Nat \ {0}] /\ PeerStorage \in Nat
  /\ TargetMin \in Nat /\ TargetMax \in Nat /\ TargetMin <= TargetMax /\ Band \in Nat

Bytes(S) == UNION {{f} \X (1 .. Size[f]) : f \in S}
Total(S) == Cardinality(Bytes(S))
Count(r, f) == r.cache[f].count

-----------------------------------------------------------------------------
(* The network target *)

Clamp(v) == Max({TargetMin, Min({v, TargetMax})})

\* A plausible slip: a registry that outgrows the peers is not clamped.
UnclampedTarget(r, peers) ==
  LET total == Total(Known(r)) IN
    IF peers = 0 THEN TargetMin
    ELSE IF total = 0 THEN Max({TargetMin, peers \div 2})
    ELSE Min({(peers * PeerStorage) \div total, TargetMax})

\* calculate_network_target: with no file to divide by, half of the peers, and
\* that without the upper limit.
NetworkTarget(r, peers) ==
  LET total == Total(Known(r)) IN
    IF peers = 0 THEN TargetMin
    ELSE IF total = 0 THEN Max({TargetMin, peers \div 2})
    ELSE Clamp((peers * PeerStorage) \div total)

\* statistics.median of a bag of numbers, cut off.
UpTo(b, v) == Cardinality(UNION {{u} \X (1 .. b[u]) : u \in {w \in BagToSet(b) : w <= v}})
Kth(b, k) == Min({v \in BagToSet(b) : UpTo(b, v) >= k})
Median(b) ==
  LET n == UpTo(b, Max(BagToSet(b))) IN (Kth(b, (n + 1) \div 2) + Kth(b, n \div 2 + 1)) \div 2

-----------------------------------------------------------------------------
(* Replication levels *)

Low(t) == IF t > Band THEN t - Band ELSE 0
High(t) == t + Band

UnderReplicated(r, t) == {f \in Known(r) : Count(r, f) < Low(t)}
AtTargetLow(r, t)     == {f \in Known(r) : Count(r, f) = Low(t)}

\* A plausible slip: the lower edge of the band instead of the upper one.
OverTheLowEdge(r, disk, t) == {f \in Known(r) \cap disk : Count(r, f) >= Low(t)}

OverReplicated(r, disk, t) == {f \in Known(r) \cap disk : Count(r, f) > High(t)}
AtTargetHigh(r, disk, t)   == {f \in Known(r) \cap disk : Count(r, f) = High(t)}
AtTargetExact(r, disk, own, t) == {f \in (Known(r) \cap disk) \ own : Count(r, f) = t}

\* diversity_score is 1 - overlap / count, and 0 without a replica: whether f's
\* is at least g's.
Overlap(r, peers, f) == Cardinality(r.cache[f].nodes \cap peers)
MoreDiverse(r, peers, f, g) ==
  LET score(h) == IF Count(r, h) = 0 THEN 0 ELSE Count(r, h) - Overlap(r, peers, h)
      over(h)  == Max({Count(r, h), 1})
  IN score(f) * over(g) >= score(g) * over(f)

\* The orders that sorting S by before(_, _) may end in.
Sorted(S, before(_, _)) ==
  {s \in SetToSeqs(S) : \A i, j \in DOMAIN s : i < j => before(s[i], s[j])}
Ranked(S, r, peers) == Sorted(S, LAMBDA f, g : MoreDiverse(r, peers, f, g))
ByCount(S, r) == Sorted(S, LAMBDA f, g : Count(r, f) >= Count(r, g))

-----------------------------------------------------------------------------
(* Selection *)

\* S are the files of s that fit, besides those chosen before, when each is taken
\* in its turn if there still is room.
Fits(S, s, chosen, limit) ==
  \A i \in DOMAIN s :
    s[i] \in S <=>
      Total(chosen \cup (S \cap {s[j] : j \in 1 .. i - 1})) + Size[s[i]] <= limit

\* select_files_to_replicate: as many as fit, of the under-replicated files and,
\* if space remains, of those at the lower edge.
FilesToReplicate(r, peers, t, limit) ==
  LET under == UnderReplicated(r, t)  low == AtTargetLow(r, t) IN
    {S \in SUBSET (under \cup low) :
       /\ \E u \in Ranked(under, r, peers) : Fits(S \cap under, u, {}, limit)
       /\ IF Total(S \cap under) < limit
            THEN \E l \in Ranked(low, r, peers) : Fits(S \cap low, l, S \cap under, limit)
            ELSE S \subseteq under}

MayGo(r, own, f) == f \notin own /\ Count(r, f) > 1

\* A plausible slip: the search goes on when enough has been freed.
DeletingMore(s, r, own, needed) == {f \in Range(s) : MayGo(r, own, f)}

\* The walk through the candidates: own files and last replicas are passed
\* over, and any other is taken unless enough is freed by those before it.
Deleting(s, r, own, needed) ==
  LET before(i) == {f \in {s[j] : j \in 1 .. i - 1} : MayGo(r, own, f)} IN
    {s[i] : i \in {k \in DOMAIN s :
       MayGo(r, own, s[k]) /\ (before(k) = {} \/ Total(before(k)) < needed)}}

Critical(r, t) == \E f \in Known(r) : Count(r, f) <= Max({1, t \div 2})

\* select_files_to_delete: the most over-replicated first, then those at the
\* upper edge, then those at the target, if any file is critical or anything
\* at all is needed.
FilesToDelete(r, disk, own, t, needed) ==
  {Deleting(o \o h \o e, r, own, needed) :
     o \in ByCount(OverReplicated(r, disk, t), r),
     h \in SetToSeqs(AtTargetHigh(r, disk, t)),
     e \in SetToSeqs(IF Critical(r, t) \/ needed > 0
                       THEN AtTargetExact(r, disk, own, t) ELSE {})}
=============================================================================
