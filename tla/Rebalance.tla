----------------------------- MODULE Rebalance ------------------------------
(***************************************************************************)
(* Replication between several nodes: publications, announcements,         *)
(* solicitations and their ACKs, src/Server/app.py, which move the counts  *)
(* of the registries, and the rebalancing that acts on the counts,         *)
(* src/Server/replication.py.                                              *)
(*                                                                         *)
(* A message may take any time and overtake others; one that is never      *)
(* received is lost.  A node's receive thread and its scheduler thread     *)
(* interleave: a handler is one step, but for a completed download, which  *)
(* is stored and then counted.  Deleted files, clean-up and restarts are   *)
(* in module Gossip, the bookkeeping of the disk in Storage, the chunks of *)
(* a download in Download.                                                 *)
(***************************************************************************)
EXTENDS Replication

CONSTANTS
  Author,     \* the node that publishes each file
  Quota,      \* quota of each node
  MinPeers,   \* rebalance_min_peers
  MaxEffort   \* bound: rebalancings, responses and users' downloads, nodes that
              \* leave and connections to running nodes that are lost

ASSUME RebalanceAssumption ==
  /\ IsFiniteSet(Node) /\ Author \in [File -> Node] /\ Quota \in [Node -> Nat]
  /\ MinPeers \in Nat /\ MaxEffort \in Nat

VARIABLES
  reg,      \* registry of each node
  disk,     \* files each node stores
  temp,     \* those of them that are temporary replicas
  peers,    \* get_connected_peers of each node
  up,       \* nodes that run
  target,   \* estimated_network_target
  received, \* received_targets
  queue,    \* queued SOLICIT_REPLICATION actions
  fetch,    \* the download that a node's scheduler thread waits for
  stored,   \* files that the receive thread has stored and not yet counted
  net,      \* messages on their way
  mixed,    \* history: pairs of a node and a file of which the node's registry
            \* has been told something else than the disk
  effort    \* history: counter for the bound

vars == <<reg, disk, temp, peers, up, target, received, queue, fetch, stored, net, mixed,
          effort>>
view == <<reg, disk, temp, target>>
world == <<peers, up>>

\* A download and the host that was chosen for it.
NoFetch == [file |-> NoFile, host |-> {}]
Fetch == {NoFetch} \cup [file : File, host : {{h} : h \in Node}]

Note == [type : {"publish", "announce", "solicit", "ack"}, file : File, from : Node, to : Node]
Response == [type : {"response"}, entries : EntrySet, target : Nat, from : Node, to : Node]

Own(n) == {f \in File : Author[f] = n}
Used(n) == Total(disk[n])
Available(n) == IF Quota[n] > Used(n) THEN Quota[n] - Used(n) ELSE 0

Init ==
  /\ reg = [n \in Node |-> EmptyRegistry] /\ disk = [n \in Node |-> {}]
  /\ temp = [n \in Node |-> {}]
  /\ peers = [n \in Node |-> Node \ {n}] /\ up = Node
  /\ target = [n \in Node |-> TargetMin] /\ received = [n \in Node |-> EmptyBag]
  /\ queue = [n \in Node |-> EmptyBag] /\ fetch = [n \in Node |-> NoFetch]
  /\ stored = [n \in Node |-> {}] /\ net = EmptyBag
  /\ mixed = {} /\ effort = 0

Effort == effort < MaxEffort /\ effort' = effort + 1

\* A message from n about each file of S to each connected peer.
ToPeers(n, type, S) ==
  SetToBag({[type |-> type, file |-> f, from |-> n, to |-> m] : f \in S, m \in peers[n]})
Broadcast(n, type, S) == net' = net (+) ToPeers(n, type, S)
\* A completed download keeps the receive thread until it is counted.
Take(m) == BagIn(m, net) /\ m.to \in up /\ stored[m.to] = {}
Received(m) == net' = net (-) SetToBag({m})

Learn(n, r) == reg' = [reg EXCEPT ![n] = r]
Enqueue(n, f) == queue' = [queue EXCEPT ![n] = @ (+) SetToBag({f})]

\* What the registry is told although the disk may say otherwise.
Mixes(n, S) == mixed' = mixed \cup ({n} \X S)

-----------------------------------------------------------------------------
(* The receive thread *)

\* publish_file, on a web thread.
Publish(f) ==
  LET n == Author[f] IN
    /\ n \in up /\ f \notin disk[n] \cup Known(reg[n])
    /\ disk' = [disk EXCEPT ![n] = @ \cup {f}]
    /\ Learn(n, AddAll(reg[n], Only(f, 1, {n})))
    /\ Broadcast(n, "publish", {f})
    /\ UNCHANGED <<temp, target, received, queue, fetch, stored, mixed, world, effort>>

\* _on_file_publish: the entry replaces one that may have counted other
\* replicas, this node's own among them.
OnPublish(m) ==
  LET n == m.to IN
    /\ m.type = "publish" /\ Take(m) /\ Received(m)
    /\ Learn(n, AddAll(reg[n], Only(m.file, 1, {m.from})))
    /\ Mixes(n, IF n \in reg[n].cache[m.file].nodes THEN {m.file} ELSE {})
    /\ IF m.file \notin disk[n] /\ Available(n) >= Size[m.file]
         THEN Enqueue(n, m.file) ELSE UNCHANGED queue
    /\ UNCHANGED <<disk, temp, target, received, fetch, stored, world, effort>>

\* _on_file_announce and _on_replication_ack.
OnReplica(m) ==
  /\ m.type \in {"announce", "ack"} /\ Take(m) /\ Received(m)
  /\ Learn(m.to, Increment(reg[m.to], m.file, m.from))
  /\ UNCHANGED <<disk, temp, target, received, queue, fetch, stored, mixed, world, effort>>

\* _on_replication_solicit, can_accept_solicit: whether this node knows the file
\* is not asked.
OnSolicit(m) ==
  LET n == m.to IN
    /\ m.type = "solicit" /\ Take(m)
    /\ IF m.file \notin disk[n] /\ Available(n) >= Size[m.file]
         THEN /\ net' = (net (-) SetToBag({m})) (+)
                   SetToBag({[type |-> "ack", file |-> m.file, from |-> n, to |-> m.from]})
              /\ Enqueue(n, m.file)
              /\ Mixes(n, {m.file})
         ELSE Received(m) /\ UNCHANGED <<queue, mixed>>
    /\ UNCHANGED <<view, received, fetch, stored, world, effort>>

\* _on_file_registry_response, merge_delta and receive_target_estimate.
OnResponse(m) ==
  LET n == m.to IN
    /\ m.type = "response" /\ Take(m) /\ Received(m)
    /\ Learn(n, Merge(reg[n], m.entries))
    /\ LET b == received[n] (+) SetToBag({m.target}) IN
         /\ received' = [received EXCEPT ![n] = b]
         /\ target' = [target EXCEPT ![n] = Clamp(Median(b))]
    /\ UNCHANGED <<disk, temp, queue, fetch, stored, mixed, world, effort>>

\* A host of f for node n that is connected and serves it.
Serves(h, n, f) == h \in reg[n].cache[f].nodes \cap peers[n] \cap up /\ f \in disk[h]

\* _on_file_chunk: the last chunk of f has come, for the scheduler thread or
\* for a user.  The file is stored ...
Complete(n, f) ==
  /\ n \in up /\ stored[n] = {} /\ f \in Known(reg[n]) \ disk[n]
  /\ \/ /\ fetch[n].file = f /\ \E h \in fetch[n].host : h \in up /\ f \in disk[h]
        /\ UNCHANGED effort
     \/ Effort /\ fetch[n].file # f /\ \E h \in Node : Serves(h, n, f)
  /\ disk' = [disk EXCEPT ![n] = @ \cup {f}]
  /\ temp' = [temp EXCEPT ![n] = @ \cup {f}]
  /\ stored' = [stored EXCEPT ![n] = {f}]
  /\ UNCHANGED <<reg, target, received, queue, fetch, net, mixed, world>>

\* ... counted and announced.
CountStored(n, f) ==
  /\ n \in up /\ f \in stored[n]
  /\ stored' = [stored EXCEPT ![n] = {}]
  /\ Learn(n, Increment(reg[n], f, n))
  /\ Broadcast(n, "announce", {f})
  /\ Mixes(n, {f} \ disk[n])
  /\ UNCHANGED <<disk, temp, target, received, queue, fetch, world, effort>>

\* A user's download, from the web page: queued, whatever room there is.
Wish(n, f) ==
  /\ n \in up /\ f \in Known(reg[n]) \ disk[n]
  /\ Effort /\ Enqueue(n, f)
  /\ UNCHANGED <<view, received, fetch, stored, net, mixed, world>>

-----------------------------------------------------------------------------
(* The scheduler thread *)

Idle(n) == n \in up /\ fetch[n] = NoFetch

\* _act_solicit_replication: a file that is here is counted once more; one that
\* is unknown or has no connected host cannot be downloaded.
Solicit(n, f) ==
  /\ Idle(n) /\ BagIn(f, queue[n])
  /\ queue' = [queue EXCEPT ![n] = @ (-) SetToBag({f})]
  /\ LET hosts == reg[n].cache[f].nodes \cap peers[n] IN
       CASE f \in disk[n] -> Learn(n, Increment(reg[n], f, n)) /\ UNCHANGED fetch
         [] f \notin disk[n] /\ hosts = {} -> UNCHANGED <<reg, fetch>>
         [] OTHER -> /\ \E h \in hosts : fetch' = [fetch EXCEPT ![n] = [file |-> f, host |-> {h}]]
                     /\ UNCHANGED reg
  /\ UNCHANGED <<disk, temp, target, received, stored, net, mixed, world, effort>>

\* download_file returns: the replica is stored for good, counted and announced
\* again ...
Replicate(n) ==
  LET f == fetch[n].file IN
    /\ n \in up /\ f \in disk[n] \ stored[n]
    /\ temp' = [temp EXCEPT ![n] = @ \ {f}]
    /\ fetch' = [fetch EXCEPT ![n] = NoFetch]
    /\ Learn(n, Increment(reg[n], f, n))
    /\ Broadcast(n, "announce", {f})
    /\ UNCHANGED <<disk, target, received, queue, stored, mixed, world, effort>>

\* ... or it raises, at the latest by its timeout.
Fails(n) ==
  /\ n \in up /\ fetch[n] # NoFetch
  /\ fetch' = [fetch EXCEPT ![n] = NoFetch]
  /\ UNCHANGED <<view, received, queue, stored, net, mixed, world, effort>>

\* A plausible slip: the file goes, the replica stays in the registry.
EvictUncounted(n, S) == disk' = [disk EXCEPT ![n] = @ \ S] /\ UNCHANGED reg

\* The files of S are deleted, and counted down, here alone.
Evict(n, S) ==
  /\ disk' = [disk EXCEPT ![n] = @ \ S]
  /\ Learn(n, RemoveReplicas(reg[n], S, n))

\* Up to three over-replicated files, but for own ones and last replicas.
Surplus(n, t) ==
  LET over == OverReplicated(reg[n], disk[n], t) IN
    {{f \in T \ Own(n) : Count(reg[n], f) > 1} : T \in kSubset(Min({3, Cardinality(over)}), over)}

\* execute_rebalance, behind should_rebalance.  (The gate is opened before the
\* first REBALANCE, and tier1_total is never set, so nothing but the number of
\* peers decides.)
Execute(n, t) ==
  LET under == UnderReplicated(reg[n], t)
      needed == Total(under \ disk[n])
      solicits(r, room) == \E S \in FilesToReplicate(r, peers[n], t, room) : Broadcast(n, "solicit", S)
  IN CASE Cardinality(peers[n]) < MinPeers -> UNCHANGED <<reg, disk, net>>
       [] OTHER ->
          \/ /\ under # {} /\ Available(n) > 0
             /\ solicits(reg[n], Available(n)) /\ UNCHANGED <<reg, disk>>
          \/ /\ under # {} /\ Used(n) > Quota[n]
             /\ \E S \in FilesToDelete(reg[n], disk[n], Own(n), t, needed) :
                  /\ Evict(n, S)
                  /\ LET used == Total(disk[n] \ S) IN
                       solicits(RemoveReplicas(reg[n], S, n),
                                IF Quota[n] > used THEN Quota[n] - used ELSE 0)
          \/ under # {} /\ Used(n) = Quota[n] /\ UNCHANGED <<reg, disk, net>>
          \/ under = {} /\ (\E S \in Surplus(n, t) : Evict(n, S)) /\ UNCHANGED net

\* _act_rebalance
ActRebalance(n) ==
  LET t == NetworkTarget(reg[n], Cardinality(Node) - 1) IN
    /\ Idle(n) /\ Effort /\ Execute(n, t)
    /\ target' = [target EXCEPT ![n] = t]
    /\ temp' = [temp EXCEPT ![n] = @ \cap disk'[n]]
    /\ UNCHANGED <<received, queue, fetch, stored, mixed, world>>

\* _act_cleanup_temp, when some temporary replica has expired and becomes a
\* permanent one: it takes the target as the last response has left it.
ActCleanup(n) ==
  \E S \in SUBSET temp[n] \ {{}} :
    /\ Idle(n) /\ Effort /\ Execute(n, target[n])
    /\ temp' = [temp EXCEPT ![n] = (@ \ S) \cap disk'[n]]
    /\ UNCHANGED <<target, received, queue, fetch, stored, mixed, world>>

\* _send_file_registry_response, to some peer that asks, with some of the files.
Respond(n, m) ==
  LET t == NetworkTarget(reg[n], Cardinality(Node) - 1) IN
    /\ Idle(n) /\ Effort /\ m \in peers[n]
    /\ target' = [target EXCEPT ![n] = t]
    /\ \E S \in SUBSET Known(reg[n]) :
         net' = net (+) SetToBag({[type |-> "response", entries |-> Among(S, reg[n].cache),
                                   target |-> t, from |-> n, to |-> m]})
    /\ UNCHANGED <<reg, disk, temp, received, queue, fetch, stored, mixed, world>>

-----------------------------------------------------------------------------
(* Nodes and connections *)

\* A node stops for good.
Leave(n) ==
  /\ n \in up /\ Effort /\ up' = up \ {n}
  /\ UNCHANGED <<view, peers, received, queue, fetch, stored, net, mixed>>

\* _on_goodbye and the liveness check: n takes m for disconnected, rightly or
\* because it has not heard of it.
LosePeer(n, m) ==
  /\ n \in up /\ m \in peers[n]
  /\ peers' = [peers EXCEPT ![n] = @ \ {m}]
  /\ Learn(n, RemovePeer(reg[n], m))
  /\ IF m \in up THEN Effort ELSE UNCHANGED effort
  /\ UNCHANGED <<disk, temp, up, target, received, queue, fetch, stored, net, mixed>>

\* _on_hello of a peer that is connected again; its replicas stay removed.
MeetAgain(n, m) ==
  /\ {n, m} \subseteq up /\ m \notin peers[n] \cup {n}
  /\ peers' = [peers EXCEPT ![n] = @ \cup {m}]
  /\ UNCHANGED <<view, up, received, queue, fetch, stored, net, mixed, effort>>

Next ==
  \/ \E f \in File : Publish(f)
  \/ \E m \in BagToSet(net) : OnPublish(m) \/ OnReplica(m) \/ OnSolicit(m) \/ OnResponse(m)
  \/ \E n \in Node, f \in File : Complete(n, f) \/ CountStored(n, f)
  \/ \E n \in Node, f \in File : Wish(n, f) \/ Solicit(n, f)
  \/ \E n \in Node : Replicate(n) \/ Fails(n) \/ ActRebalance(n) \/ ActCleanup(n) \/ Leave(n)
  \/ \E n, m \in Node : Respond(n, m) \/ LosePeer(n, m) \/ MeetAgain(n, m)

Spec == Init /\ [][Next]_vars

-----------------------------------------------------------------------------
\* Every variable has its type.  The target stays between its two limits, but
\* for half of the peers, which a node without any file takes unlimited; no
\* file is counted before it is known; only a file on the disk is temporary or
\* waits to be counted, unless it was evicted before it was.
TypeOK ==
  /\ reg \in [Node -> RegistryState] /\ disk \in [Node -> SUBSET File]
  /\ temp \in [Node -> SUBSET File] /\ \A n \in Node : temp[n] \subseteq disk[n] \ Own(n)
  /\ peers \in [Node -> SUBSET Node] /\ up \subseteq Node
  /\ target \in [Node -> TargetMin .. Max({TargetMax, (Cardinality(Node) - 1) \div 2})]
  /\ \A n \in Node : IsABag(received[n]) /\ IsABag(queue[n]) /\ BagToSet(queue[n]) \subseteq File
  /\ fetch \in [Node -> Fetch] /\ stored \in [Node -> SUBSET File]
  /\ IsABag(net) /\ BagToSet(net) \subseteq Note \cup Response
  /\ mixed \subseteq Node \X File /\ effort \in 0 .. MaxEffort

\* A node knows its own disk: of the files it knows it lists itself as a host
\* of those it stores and of no other, through downloads, evictions, repeated
\* counts and responses of others about its replicas.  Not while a stored file
\* waits to be counted, nor once the registry was told otherwise: by an
\* accepted solicitation, a FILE_PUBLISH that replaced the entry, or a file
\* that was evicted before it was counted.
SelfKnown ==
  \A n \in Node : \A f \in Known(reg[n]) :
    f \in stored[n] \/ <<n, f>> \in mixed \/ (f \in disk[n] <=> n \in reg[n].cache[f].nodes)

\* A rebalancing deletes no file that it then takes for under-replicated, and
\* would ask the network for again: it knows that many replicas remain.  (With
\* a tolerance band; with Band = 0 a file exactly at the target is deleted, and
\* then under-replicated.)
KeepsLevel ==
  [][\A n \in Node : \A f \in disk[n] \ disk'[n] : Count(reg'[n], f) >= Low(target'[n])]_vars

\* What select_files_to_delete ends with, in every order of the cache: neither
\* own files nor files counted once; enough, or all there is; no file more than
\* that, though always one; and none of a lower priority while there is one of
\* a higher.
DeletesJustEnough ==
  \A n \in Node : \A needed \in 0 .. Total(File) :
    LET own  == Own(n)
        may  == {f \in (Known(reg[n]) \cap disk[n]) \ own : Count(reg[n], f) > 1}
        over(f) == Count(reg[n], f) - target[n]
        can  == {f \in may : over(f) >= Band}
                  \cup {f \in may : over(f) = 0 /\ (needed > 0 \/ Critical(reg[n], target[n]))}
        rank(f) == Min({over(f), Band + 1})
    IN \A S \in FilesToDelete(reg[n], disk[n], own, target[n], needed) :
         /\ S \subseteq can
         /\ Total(S) < needed => S = can
         /\ can # {} => S # {}
         /\ \A f \in S, g \in can \ S : rank(g) <= rank(f)
         /\ S # {} => \E f \in S : Total(S \ {f}) < Max({needed, 1})

\* What the docstring of select_files_to_delete says, "Never sole replica
\* holder": another node has the file, which runs or is still taken for
\* connected.
SoleCopyKept ==
  [][\A n \in Node : \A f \in disk[n] \ disk'[n] :
       \E m \in Node \ {n} : f \in disk[m] /\ m \in up \cup peers[n]]_vars
=============================================================================
