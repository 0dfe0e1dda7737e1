------------------------------ MODULE Gossip -------------------------------
(***************************************************************************)
(* The registries of several nodes and the messages that keep them in      *)
(* step: publish, update, delete, announce, and the exchange of deltas     *)
(* that HELLO and PING set off (src/Server/app.py).  Connections are only  *)
(* as detailed as the registry needs them, and a file is an identifier.    *)
(***************************************************************************)
EXTENDS Registry, Stamp, FiniteSets

CONSTANTS Author,    \* the node at which the author of each file is logged in
          Lossy,     \* whether messages may be lost and duplicated
          MaxTime,   \* bound: the clock; beyond it all readings are the same
          MaxCount,  \* bound: replica counts
          Instants,  \* bound: when users act, within the second, in units of Stamp
          MaxNet,    \* bound: messages on the network
          MaxMoves   \* bound: replica moves, lost connections and restarts

ASSUME GossipAssumption ==
  /\ Author \in [File -> Node]
  /\ Lossy \in BOOLEAN /\ Instants \subseteq Nat
  /\ MaxTime \in Nat /\ MaxCount \in Nat /\ MaxNet \in Nat /\ MaxMoves \in Nat

VARIABLES
  reg,       \* the registry of each node
  update,    \* last_registry_update; not persisted, 0 after a start
  link,      \* the peers each node has as CONNECTED
  exchange,  \* whether an EXCHANGE_REGISTRY action is queued
  net,       \* messages
  stamp,     \* the timestamp of each published file, 0 before
  now,       \* time.time(): every reading is a new value
  deleted,   \* history: files whose author has deleted them
  moves      \* history: how many of the moves that MaxMoves bounds

vars == <<reg, update, link, exchange, net, stamp, now, deleted, moves>>

Time == 0 .. MaxTime
Message ==
  [type : {"hello", "ping"}, from : Node, to : Node, update : Time]
  \cup [type : {"query"}, from : Node, to : Node, since : Time, files : SUBSET File]
  \cup [type : {"response"}, to : Node, entries : EntrySet]
  \cup [type : {"publish", "update"}, from : Node, to : Node, file : File,
         signed : Nat, sent : Nat]
  \cup [type : {"delete"}, to : Node, file : File, signed : Nat, sent : Nat]
  \cup [type : {"announce"}, node : Node, to : Node, file : File]

Init ==
  /\ reg = [n \in Node |-> EmptyRegistry]
  /\ update = [n \in Node |-> 0]
  /\ link = [n \in Node |-> {}]
  /\ exchange = [n \in Node |-> TRUE]
  /\ net = {}
  /\ stamp = [f \in File |-> 0]
  /\ now = 0
  /\ deleted = {}
  /\ moves = 0

\* The clock is read, and n has its registry marked as updated.
Later == IF now < MaxTime THEN now + 1 ELSE now
MarkUpdated(n) == now' = Later /\ update' = [update EXCEPT ![n] = Later]

\* The messages M leave; received ones may be delivered once more.
SendFrom(base, M) ==
  /\ \E S \in IF Lossy THEN SUBSET M ELSE {M} : net' = base \cup S
  /\ Cardinality(net') <= MaxNet
Send(M) == SendFrom(net, M)
Reply(m, M) == SendFrom(net \ {m}, M) \/ (Lossy /\ SendFrom(net, M))
Receive(m) == Reply(m, {})

Move == moves < MaxMoves /\ moves' = moves + 1
Local(n, r) == reg' = [reg EXCEPT ![n] = r]
Fits(n, f) == reg[n].row[f].count < MaxCount

-----------------------------------------------------------------------------
(* What users do *)

\* Mutant: update_file sends the unrounded timestamp as well.
SentUnrounded(type, t) == Encode(t)

\* The timestamps of what a user does at t: the one that is signed ...
Signed(type, t) == IF type = "delete" THEN Encode(t) ELSE Encode(ToMicrosecond(t))
\* ... and the one that is sent.
Sent(type, t) == IF type = "update" THEN Encode(ToMicrosecond(t)) ELSE Encode(t)

\* publish_file, and update_file with a predecessor: the entry, the mark and
\* the broadcast to everybody connected.
Publish(n, f) ==
  /\ Author[f] = n /\ stamp[f] = 0 /\ now < MaxTime
  /\ Prev[f] = NoFile \/ (Prev[f] \in Known(reg[n]) /\ Author[Prev[f]] = n)
  /\ Local(n, AddAll(reg[n], Only(f, 1, {n})))
  /\ stamp' = [stamp EXCEPT ![f] = Later]
  /\ MarkUpdated(n)
  /\ LET type == IF Prev[f] = NoFile THEN "publish" ELSE "update" IN
       \E t \in Instants :
         Send({[type |-> type, from |-> n, to |-> p, file |-> f,
                signed |-> Signed(type, t), sent |-> Sent(type, t)] : p \in link[n]})
  /\ UNCHANGED <<link, exchange, deleted, moves>>

Delete(n, f) ==
  /\ Author[f] = n /\ f \in Known(reg[n])
  /\ \E t \in Instants :
       Send({[type |-> "delete", to |-> p, file |-> f,
              signed |-> Signed("delete", t), sent |-> Sent("delete", t)] : p \in link[n]})
  /\ Local(n, MarkDeleted(reg[n], f))
  /\ MarkUpdated(n)
  /\ deleted' = deleted \cup {f}
  /\ UNCHANGED <<link, exchange, stamp, moves>>

-----------------------------------------------------------------------------
(* Replicas: the scheduler's handlers *)

\* SOLICIT_REPLICATION of a file that is on disk: one more replica.
CountAgain(n, f) ==
  /\ Move
  /\ Fits(n, f) /\ stamp[f] # 0
  /\ Local(n, Increment(reg[n], f, n))
  /\ UNCHANGED <<update, link, exchange, net, stamp, now, deleted>>

\* ... and of one that is downloaded: counted and announced by the last chunk,
\* and both once more by the handler.
Replicate(n, f) ==
  /\ Move
  /\ f \in Known(reg[n]) /\ reg[n].row[f].count + 1 < MaxCount
  /\ Local(n, Increment(Increment(reg[n], f, n), f, n))
  /\ Send({[type |-> "announce", node |-> n, to |-> p, file |-> f] : p \in link[n]})
  /\ MarkUpdated(n)
  /\ UNCHANGED <<link, exchange, stamp, deleted>>

\* A rebalancing step gives up the local copy and tells nobody.
Shed(n, f) ==
  /\ Move
  /\ f \in Known(reg[n]) /\ reg[n].cache[f].count > 1
  /\ Local(n, Decrement(reg[n], f, n))
  /\ UNCHANGED <<update, link, exchange, net, stamp, now, deleted>>

\* GC_OLD_VERSIONS: some superseded versions are old enough.
CollectOld(n) ==
  /\ Move
  /\ \E old \in SUBSET Superseded(reg[n]) \ {{}} : Local(n, CleanUp(reg[n], old))
  /\ UNCHANGED <<update, link, exchange, net, stamp, now, deleted>>

-----------------------------------------------------------------------------
(* Connections *)

\* HELLO goes to any address, PING to a connected peer; both say how new the
\* sender's registry is.
Greet(n, p, type) ==
  /\ n # p /\ (type = "ping" => p \in link[n])
  /\ Send({[type |-> type, from |-> n, to |-> p, update |-> update[n]]})
  /\ UNCHANGED <<reg, update, link, exchange, stamp, now, deleted, moves>>

OnGreeting(m) ==
  /\ m.type \in {"hello", "ping"}
  /\ link' = IF m.type = "hello" THEN [link EXCEPT ![m.to] = @ \cup {m.from}] ELSE link
  /\ exchange' = [exchange EXCEPT ![m.to] = @ \/ m.update > update[m.to]]
  /\ Receive(m)
  /\ UNCHANGED <<reg, update, stamp, now, deleted, moves>>

\* GOODBYE, or a liveness timeout.
DropPeer(n, p) ==
  /\ Move
  /\ p \in link[n]
  /\ link' = [link EXCEPT ![n] = @ \ {p}]
  /\ Local(n, RemovePeer(reg[n], p))
  /\ UNCHANGED <<update, exchange, net, stamp, now, deleted>>

\* The peer book and the registry are on disk, the rest starts anew.
Restart(n) ==
  /\ Move
  /\ Local(n, Reload(reg[n]))
  /\ update' = [update EXCEPT ![n] = 0]
  /\ exchange' = [exchange EXCEPT ![n] = TRUE]
  /\ UNCHANGED <<link, net, stamp, now, deleted>>

-----------------------------------------------------------------------------
(* The exchange *)

Exchange(n) ==
  /\ exchange[n] /\ exchange' = [exchange EXCEPT ![n] = FALSE]
  /\ Send({[type |-> "query", from |-> n, to |-> p, since |-> update[n],
            files |-> Known(reg[n])] : p \in link[n]})
  /\ UNCHANGED <<reg, update, link, stamp, now, deleted, moves>>

\* The scheduler answers with what is newer than the requester's last update,
\* and with nothing when the digests agree.
OnQuery(m) ==
  /\ m.type = "query"
  /\ LET r == reg[m.to]
         newer == IF m.files = Known(r) THEN {} ELSE {f \in Known(r) : stamp[f] > m.since}
     IN  Reply(m, {[type |-> "response", to |-> m.from,
                    entries |-> Among(newer, r.cache)]})
  /\ UNCHANGED <<reg, update, link, exchange, stamp, now, deleted, moves>>

OnResponse(m) ==
  /\ m.type = "response"
  /\ Local(m.to, Merge(reg[m.to], m.entries))
  /\ MarkUpdated(m.to)
  /\ Receive(m)
  /\ UNCHANGED <<link, exchange, stamp, deleted, moves>>

\* The signature is checked against the timestamp that has arrived.
Verifies(m) == Encode(Decode(m.sent)) = m.signed

OnPublish(m) ==
  /\ m.type \in {"publish", "update"} /\ Verifies(m)
  /\ Local(m.to, AddAll(reg[m.to], Only(m.file, 1, {m.from})))
  /\ MarkUpdated(m.to)
  /\ Receive(m)
  /\ UNCHANGED <<link, exchange, stamp, deleted, moves>>

OnDelete(m) ==
  /\ m.type = "delete" /\ Verifies(m)
  /\ Local(m.to, MarkDeleted(reg[m.to], m.file))
  /\ MarkUpdated(m.to)
  /\ Receive(m)
  /\ UNCHANGED <<link, exchange, stamp, deleted, moves>>

\* A message whose signature does not verify is dropped.
Reject(m) ==
  /\ m.type \in {"publish", "update", "delete"} /\ ~Verifies(m)
  /\ Receive(m)
  /\ UNCHANGED <<reg, update, link, exchange, stamp, now, deleted, moves>>

OnAnnounce(m) ==
  /\ m.type = "announce" /\ Fits(m.to, m.file)
  /\ Local(m.to, Increment(reg[m.to], m.file, m.node))
  /\ MarkUpdated(m.to)
  /\ Receive(m)
  /\ UNCHANGED <<link, exchange, stamp, deleted, moves>>

Handle(m) == \/ OnGreeting(m) \/ OnQuery(m) \/ OnResponse(m)
             \/ OnPublish(m) \/ Reject(m) \/ OnDelete(m) \/ OnAnnounce(m)

Next ==
  \/ \E n \in Node, f \in File : Publish(n, f)
  \/ \E n \in Node, f \in File : Delete(n, f)
  \/ \E n \in Node, f \in File : CountAgain(n, f)
  \/ \E n \in Node, f \in File : Replicate(n, f)
  \/ \E n \in Node, f \in File : Shed(n, f)
  \/ \E n \in Node : CollectOld(n)
  \/ \E n, p \in Node, type \in {"hello", "ping"} : Greet(n, p, type)
  \/ \E n, p \in Node : DropPeer(n, p)
  \/ \E n \in Node : Restart(n)
  \/ \E n \in Node : Exchange(n)
  \/ \E m \in net : Handle(m)

Spec == Init /\ [][Next]_vars

\* Connected peers ping each other for ever, queued exchanges take place, and
\* no message stays on the network for ever: the most a network can do.
Fairness ==
  /\ \A n, p \in Node : n # p => SF_vars(Greet(n, p, "ping"))
  /\ \A n \in Node : SF_vars(Exchange(n))
  /\ []<>(net = {})

FairSpec == Spec /\ Fairness

-----------------------------------------------------------------------------
(* Properties *)

TypeOK ==
  /\ reg \in [Node -> RegistryState]
  /\ update \in [Node -> Time]
  /\ link \in [Node -> SUBSET Node]
  /\ exchange \in [Node -> BOOLEAN]
  /\ \A m \in net : m \in Message
  /\ stamp \in [File -> Time]
  /\ now \in Time
  /\ deleted \subseteq File
  /\ moves \in 0 .. MaxMoves

\* Whatever the nodes have told each other, in whatever order: at each of them
\* the cache and the tables agree, so that a restart changes no count.
RegistriesCoherent == \A n \in Node : Coherent(reg[n])

\* A file that a node knows is forgotten only when its author deletes it, or
\* when the node knows a newer version: by no peer that leaves, no merge and
\* no restart.
Forgets(n, f) == f \in Known(reg[n]) /\ f \notin Known(reg'[n])
KnownIsDurable ==
  [][\A n \in Node, f \in File : Forgets(n, f) =>
       f \in deleted' \/ \E g \in Known(reg[n]) : Prev[g] = f]_vars

\* A node takes a file up, for the first time or again after a deletion, only
\* when its author publishes it or from a message that carries it: no restart,
\* clean-up, announcement or lost peer brings a deleted file back.  (A response
\* that is late does: merge_delta asks the cache, not the row that is marked.)
Carries(m, f) == \/ m.type \in {"publish", "update"} /\ m.file = f
                 \/ m.type = "response" /\ m.entries[f] # NoEntry
Learns(n, f) == f \notin Known(reg[n]) /\ f \in Known(reg'[n])
LearnsByMessage ==
  [][\A n \in Node, f \in File : Learns(n, f) =>
       stamp[f] = 0 \/ \E m \in net : m.to = n /\ Carries(m, f)]_vars

\* What an author has signed verifies at the receivers, although both sides
\* convert the timestamp from and to floating point.  Publications excepted
\* whose microsecond was rounded up: publish_file signs the rounded timestamp
\* and sends the other, which the encoder cuts off.
SignaturesVerify ==
  \A m \in net : m.type \in {"publish", "update", "delete"} =>
    Verifies(m) \/ (m.type = "publish" /\ m.signed = m.sent + 1)

-----------------------------------------------------------------------------
(* What the documents say and the code does not do *)

\* README.md:228, "eventual consistency": a file that a node knows, and that its
\* author does not delete, comes to be known by the peers it stays connected with.
Linked(n, p) == p \in link[n] /\ n \in link[p]
Converges ==
  \A n, p \in Node, f \in File :
    Linked(n, p) /\ f \in Known(reg[n]) ~>
      f \in Known(reg[p]) \/ f \in deleted \/ ~Linked(n, p)
=============================================================================
