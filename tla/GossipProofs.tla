---------------------------- MODULE GossipProofs ---------------------------
(***************************************************************************)
(* Proofs about any number of registries that gossip, for every set of     *)
(* nodes, files, authors and every bound.                                  *)
(***************************************************************************)
EXTENDS Gossip, RegistryProofs

-----------------------------------------------------------------------------
(* Timestamps *)

\* Rounding moves a value by half a unit at most.
LEMMA NearestClose ==
  ASSUME NEW p \in Nat
  PROVE  /\ Nearest(p, 15625) \in Nat
         /\ 2 * (15625 * Nearest(p, 15625) - p) <= 15625
         /\ 2 * (p - 15625 * Nearest(p, 15625)) <= 15625
<1> DEFINE d == p \div 15625
           r == p % 15625
<1>1. d \in Nat /\ r \in Nat /\ r < 15625 /\ p = 15625 * d + r
  BY SMT
<1>2. Nearest(p, 15625) = IF 2 * r > 15625 \/ (2 * r = 15625 /\ d % 2 = 1) THEN d + 1 ELSE d
  BY SMT DEF Nearest
<1> HIDE DEF d, r
<1>3. CASE 2 * r > 15625 \/ (2 * r = 15625 /\ d % 2 = 1)
  BY <1>1, <1>2, <1>3, SMT
<1>4. CASE ~(2 * r > 15625 \/ (2 * r = 15625 /\ d % 2 = 1))
  BY <1>1, <1>2, <1>4, SMT
<1> QED BY <1>3, <1>4, SMT

\* The nearest integer is the one that is closer than half a unit.
LEMMA NearestIs ==
  ASSUME NEW p \in Nat, NEW m \in Nat,
         2 * (p - 16384 * m) < 16384, 2 * (16384 * m - p) < 16384
  PROVE  Nearest(p, 16384) = m
<1> DEFINE d == p \div 16384
           r == p % 16384
<1>1. d \in Nat /\ r \in Nat /\ r < 16384 /\ p = 16384 * d + r
  BY SMT
<1>2. Nearest(p, 16384) = IF 2 * r > 16384 \/ (2 * r = 16384 /\ d % 2 = 1) THEN d + 1 ELSE d
  BY SMT DEF Nearest
<1> HIDE DEF d, r
<1>3. CASE 2 * r > 16384
  <2>1. m = d + 1
    BY <1>1, <1>3, SMT
  <2> QED BY <1>2, <1>3, <2>1, SMT
<1>4. CASE 2 * r <= 16384
  <2>1. m = d /\ 2 * r # 16384
    BY <1>1, <1>4, SMT
  <2> QED BY <1>1, <1>2, <1>4, <2>1, SMT
<1> QED BY <1>1, <1>3, <1>4, SMT

\* A whole number of microseconds that is received, divided by a million and
\* multiplied again to check a signature or to be stored, is the number it was
\* (protocol.py and app.py): two roundings to a double cost nothing.
THEOREM StampsSurvive == \A n \in Nat : Encode(Decode(n)) = n
<1> SUFFICES ASSUME NEW n \in Nat PROVE Encode(Decode(n)) = n
  OBVIOUS
<1> DEFINE t == Decode(n)
<1>1. n \in Nat /\ n * 65536 \in Nat
  BY SMT
<1>2. t \in Nat /\ 2 * (15625 * t - n * 65536) <= 15625 /\ 2 * (n * 65536 - 15625 * t) <= 15625
  BY <1>1, NearestClose, SMT DEF Decode
<1> HIDE DEF t
<1>3. t * 15625 \in Nat /\ 4 * n \in Nat /\ 2 * (t * 15625 - 16384 * (4 * n)) < 16384
      /\ 2 * (16384 * (4 * n) - t * 15625) < 16384
  BY <1>1, <1>2, SMT
<1>4. Nearest(t * 15625, 16384) = 4 * n
  BY <1>3, NearestIs, SMT
<1>5. Encode(t) = (4 * n) \div 4
  BY <1>4, SMT DEF Encode, Quarters
<1>6. (4 * n) \div 4 = n
  BY <1>1, SMT
<1> QED BY <1>5, <1>6, SMT DEF t

\* What is rounded to the nearest quarter of a microsecond and cut off.
LEMMA QuartersOf ==
  ASSUME NEW t \in Nat
  PROVE  Quarters(t) \in Nat /\ Encode(t) \in Nat
<1> DEFINE p == t * 15625
           d == p \div 16384
<1>1. p \in Nat /\ d \in Nat
  BY SMT
<1>2. Nearest(p, 16384) = d \/ Nearest(p, 16384) = d + 1
  BY SMT DEF Nearest
<1>3. Quarters(t) \in Nat
  BY <1>1, <1>2, SMT DEF Quarters
<1>4. Quarters(t) \div 4 \in Nat
  BY <1>3, SMT
<1> QED BY <1>3, <1>4 DEF Encode

\* The microsecond that is signed is the one that is sent, or the next.
LEMMA SignedMicrosecond ==
  ASSUME NEW t \in Nat
  PROVE  /\ Encode(ToMicrosecond(t)) \in Nat
         /\ Encode(ToMicrosecond(t)) \in {Encode(t), Encode(t) + 1}
<1> DEFINE q == Quarters(t)
<1>1. q \in Nat
  BY QuartersOf
<1> HIDE DEF q
<1>2. Nearest(q, 4) \in Nat /\ Nearest(q, 4) \in {q \div 4, q \div 4 + 1}
  BY <1>1, SMT DEF Nearest
<1>3. Encode(ToMicrosecond(t)) = Nearest(q, 4)
  BY <1>2, StampsSurvive DEF ToMicrosecond, q
<1> QED BY <1>2, <1>3 DEF Encode, q

\* The timestamps of a message that a user's action sends.
LEMMA StampsType ==
  ASSUME NEW t \in Instants, NEW type
  PROVE  /\ Signed(type, t) \in Nat /\ Sent(type, t) \in Nat
         /\ \/ Sent(type, t) = Signed(type, t)
            \/ type \notin {"update", "delete"} /\ Signed(type, t) = Sent(type, t) + 1
<1>1. t \in Nat
  BY GossipAssumption
<1>2. Encode(t) \in Nat
  BY <1>1, QuartersOf
<1>3. Encode(ToMicrosecond(t)) \in Nat /\ Encode(ToMicrosecond(t)) \in {Encode(t), Encode(t) + 1}
  BY <1>1, SignedMicrosecond
<1> QED BY <1>2, <1>3 DEF Signed, Sent

-----------------------------------------------------------------------------
(* Messages, the clock and the network *)

LEMMA MessageFields ==
  ASSUME NEW m \in Message
  PROVE  /\ m.to \in Node
         /\ m.type \in {"hello", "ping"} => m.from \in Node /\ m.update \in Time
         /\ m.type = "query" => m.from \in Node
         /\ m.type = "response" => m.entries \in EntrySet
         /\ m.type \in {"publish", "update"} => m.from \in Node /\ m.file \in File
         /\ m.type = "delete" => m.file \in File
         /\ m.type = "announce" => m.node \in Node /\ m.file \in File
  BY DEF Message

LEMMA LaterIsTime == ASSUME now \in Time PROVE Later \in Time
  BY GossipAssumption DEF Later, Time

LEMMA MarkUpdatedType ==
  ASSUME TypeOK, NEW n \in Node, MarkUpdated(n)
  PROVE  now' \in Time /\ update' \in [Node -> Time]
  BY LaterIsTime DEF TypeOK, MarkUpdated

LEMMA MoveType == ASSUME TypeOK, Move PROVE moves' \in 0 .. MaxMoves
  BY GossipAssumption DEF TypeOK, Move

\* Nothing is on the network that was not there and is not sent.
LEMMA SendFromAdds ==
  ASSUME NEW base, NEW M, SendFrom(base, M)
  PROVE  net' \subseteq base \cup M
  BY DEF SendFrom

LEMMA ReplyAdds ==
  ASSUME NEW m, NEW M, Reply(m, M)
  PROVE  net' \subseteq net \cup M
<1>1. CASE SendFrom(net \ {m}, M)
  BY <1>1, SendFromAdds
<1>2. CASE SendFrom(net, M)
  BY <1>2, SendFromAdds
<1> QED BY <1>1, <1>2 DEF Reply

LEMMA ReceiveAdds == ASSUME NEW m, Receive(m) PROVE net' \subseteq net
  BY ReplyAdds DEF Receive

-----------------------------------------------------------------------------
(* The inductive invariant *)

\* A deletion that is under way is one that the author has made.
DeletesAreMeant == \A m \in net : m.type = "delete" => m.file \in deleted

IInv == TypeOK /\ RegistriesCoherent /\ DeletesAreMeant

\* A step that puts a sound successor in the place of one registry.
LEMMA LocalSound ==
  ASSUME TypeOK, RegistriesCoherent, NEW n \in Node, NEW r, Sound(reg[n], r), Local(n, r)
  PROVE  reg' \in [Node -> RegistryState] /\ RegistriesCoherent'
<1>1. reg' = [reg EXCEPT ![n] = r] /\ reg \in [Node -> RegistryState]
  BY DEF Local, TypeOK
<1>2. r \in RegistryState /\ Coherent(r)
  BY DEF Sound, RegistriesCoherent
<1>3. reg' \in [Node -> RegistryState]
  BY <1>1, <1>2
<1>4. \A p \in Node : Coherent(reg'[p])
  BY <1>1, <1>2 DEF RegistriesCoherent
<1> QED BY <1>3, <1>4 DEF RegistriesCoherent

LEMMA UnchangedRegistries ==
  ASSUME TypeOK, RegistriesCoherent, UNCHANGED reg
  PROVE  reg' \in [Node -> RegistryState] /\ RegistriesCoherent'
  BY DEF TypeOK, RegistriesCoherent

\* Of a message sent, it matters that it is one, and that it deletes nothing
\* that is not deleted.
LEMMA NetSound ==
  ASSUME IInv, NEW M, net' \subseteq net \cup M, deleted \subseteq deleted',
         \A m \in M : m \in Message /\ (m.type = "delete" => m.file \in deleted')
  PROVE  (\A m \in net' : m \in Message) /\ DeletesAreMeant'
  BY DEF IInv, TypeOK, DeletesAreMeant

LEMMA InitInv == Init => IInv
<1> SUFFICES ASSUME Init PROVE IInv
  OBVIOUS
<1>1. 0 \in Time
  BY GossipAssumption DEF Time
<1>2. TypeOK
  BY <1>1, EmptyIsSound, GossipAssumption DEF Init, TypeOK
<1>3. RegistriesCoherent
  BY EmptyIsSound DEF Init, RegistriesCoherent
<1>4. DeletesAreMeant
  BY DEF Init, DeletesAreMeant
<1> QED BY <1>2, <1>3, <1>4 DEF IInv

-----------------------------------------------------------------------------
(* The steps *)

LEMMA PublishInv ==
  ASSUME IInv, NEW n \in Node, NEW f \in File, Publish(n, f)
  PROVE  IInv'
<1> DEFINE type == IF Prev[f] = NoFile THEN "publish" ELSE "update"
<1>a. PICK t \in Instants :
        Send({[type |-> type, from |-> n, to |-> p, file |-> f, signed |-> Signed(type, t),
               sent |-> Sent(type, t)] : p \in link[n]})
  BY DEF Publish
<1> DEFINE M == {[type |-> type, from |-> n, to |-> p, file |-> f, signed |-> Signed(type, t),
                  sent |-> Sent(type, t)] : p \in link[n]}
<1>0. TypeOK /\ RegistriesCoherent /\ reg[n] \in RegistryState
  BY DEF IInv, TypeOK
<1>1. Only(f, 1, {n}) \in EntrySet
  BY OnlyIsEntrySet
<1>2. Sound(reg[n], AddAll(reg[n], Only(f, 1, {n})))
  BY <1>0, <1>1, AddAllSound
<1>3. reg' \in [Node -> RegistryState] /\ RegistriesCoherent'
  BY <1>0, <1>2, LocalSound DEF Publish
<1>4. now' \in Time /\ update' \in [Node -> Time]
  BY <1>0, MarkUpdatedType DEF Publish
<1>5. stamp' \in [File -> Time]
  BY <1>0, LaterIsTime DEF Publish, TypeOK
<1>6. \A m \in M : m \in Message /\ (m.type = "delete" => m.file \in deleted')
  <2>1. Signed(type, t) \in Nat /\ Sent(type, t) \in Nat /\ type \in {"publish", "update"}
    BY StampsType
  <2> QED BY <1>0, <2>1 DEF TypeOK, Message
<1>7. net' \subseteq net \cup M
  BY <1>a, SendFromAdds DEF Send
<1> HIDE DEF M
<1>8. (\A m \in net' : m \in Message) /\ DeletesAreMeant'
  BY <1>6, <1>7, NetSound DEF Publish
<1> QED BY <1>0, <1>3, <1>4, <1>5, <1>8 DEF Publish, IInv, TypeOK

LEMMA DeleteInv ==
  ASSUME IInv, NEW n \in Node, NEW f \in File, Delete(n, f)
  PROVE  IInv'
<1>a. PICK t \in Instants :
        Send({[type |-> "delete", to |-> p, file |-> f, signed |-> Signed("delete", t),
               sent |-> Sent("delete", t)] : p \in link[n]})
  BY DEF Delete
<1> DEFINE M == {[type |-> "delete", to |-> p, file |-> f, signed |-> Signed("delete", t),
                  sent |-> Sent("delete", t)] : p \in link[n]}
<1>0. TypeOK /\ RegistriesCoherent /\ reg[n] \in RegistryState
  BY DEF IInv, TypeOK
<1>1. Sound(reg[n], MarkDeleted(reg[n], f))
  BY <1>0, MarkDeletedSound
<1>2. reg' \in [Node -> RegistryState] /\ RegistriesCoherent'
  BY <1>0, <1>1, LocalSound DEF Delete
<1>3. now' \in Time /\ update' \in [Node -> Time]
  BY <1>0, MarkUpdatedType DEF Delete
<1>4. deleted' = deleted \cup {f}
  BY DEF Delete
<1>5. \A m \in M : m \in Message /\ (m.type = "delete" => m.file \in deleted')
  <2>1. Signed("delete", t) \in Nat /\ Sent("delete", t) \in Nat
    BY StampsType
  <2> QED BY <1>0, <1>4, <2>1 DEF TypeOK, Message
<1>6. net' \subseteq net \cup M
  BY <1>a, SendFromAdds DEF Send
<1> HIDE DEF M
<1>7. (\A m \in net' : m \in Message) /\ DeletesAreMeant'
  BY <1>4, <1>5, <1>6, NetSound
<1> QED BY <1>0, <1>2, <1>3, <1>4, <1>7 DEF Delete, IInv, TypeOK

LEMMA CountAgainInv ==
  ASSUME IInv, NEW n \in Node, NEW f \in File, CountAgain(n, f)
  PROVE  IInv'
<1>0. TypeOK /\ RegistriesCoherent /\ reg[n] \in RegistryState
  BY DEF IInv, TypeOK
<1>1. Sound(reg[n], Increment(reg[n], f, n))
  BY <1>0, IncrementSound
<1>2. reg' \in [Node -> RegistryState] /\ RegistriesCoherent'
  BY <1>0, <1>1, LocalSound DEF CountAgain
<1>3. moves' \in 0 .. MaxMoves
  BY <1>0, MoveType DEF CountAgain
<1> QED BY <1>2, <1>3 DEF CountAgain, IInv, TypeOK, DeletesAreMeant

LEMMA IncrementTwiceSound ==
  ASSUME NEW r \in RegistryState, NEW f \in File, NEW n \in Node
  PROVE  LET s == Increment(Increment(r, f, n), f, n)
         IN  Sound(r, s) /\ Known(s) = Known(r)
<1> DEFINE s == Increment(r, f, n)
<1>1. Sound(r, s) /\ Known(s) = Known(r)
  BY IncrementSound
<1> HIDE DEF s
<1>2. Sound(s, Increment(s, f, n)) /\ Known(Increment(s, f, n)) = Known(s)
  BY <1>1, IncrementSound DEF Sound
<1>3. Sound(r, Increment(s, f, n)) /\ Known(Increment(s, f, n)) = Known(r)
  BY <1>1, <1>2 DEF Sound
<1> QED BY <1>3 DEF s

LEMMA ReplicateInv ==
  ASSUME IInv, NEW n \in Node, NEW f \in File, Replicate(n, f)
  PROVE  IInv'
<1> DEFINE M == {[type |-> "announce", node |-> n, to |-> p, file |-> f] : p \in link[n]}
<1>0. TypeOK /\ RegistriesCoherent /\ reg[n] \in RegistryState
  BY DEF IInv, TypeOK
<1>1. Sound(reg[n], Increment(Increment(reg[n], f, n), f, n))
  BY <1>0, IncrementTwiceSound
<1>2. reg' \in [Node -> RegistryState] /\ RegistriesCoherent'
  BY <1>0, <1>1, LocalSound DEF Replicate
<1>3. now' \in Time /\ update' \in [Node -> Time] /\ moves' \in 0 .. MaxMoves
  BY <1>0, MarkUpdatedType, MoveType DEF Replicate
<1>4. \A m \in M : m \in Message /\ (m.type = "delete" => m.file \in deleted')
  BY <1>0 DEF TypeOK, Message
<1>5. net' \subseteq net \cup M
  <2>1. Send(M)
    BY DEF Replicate
  <2> QED BY <2>1, SendFromAdds DEF Send
<1> HIDE DEF M
<1>6. (\A m \in net' : m \in Message) /\ DeletesAreMeant'
  BY <1>4, <1>5, NetSound DEF Replicate
<1> QED BY <1>0, <1>2, <1>3, <1>6 DEF Replicate, IInv, TypeOK

LEMMA ShedInv ==
  ASSUME IInv, NEW n \in Node, NEW f \in File, Shed(n, f)
  PROVE  IInv'
<1>0. TypeOK /\ RegistriesCoherent /\ reg[n] \in RegistryState
  BY DEF IInv, TypeOK
<1>1. Sound(reg[n], Decrement(reg[n], f, n))
  BY <1>0, RemoveReplicasSound DEF Decrement
<1>2. reg' \in [Node -> RegistryState] /\ RegistriesCoherent'
  BY <1>0, <1>1, LocalSound DEF Shed
<1>3. moves' \in 0 .. MaxMoves
  BY <1>0, MoveType DEF Shed
<1> QED BY <1>2, <1>3 DEF Shed, IInv, TypeOK, DeletesAreMeant

LEMMA SupersededFiles == ASSUME NEW r PROVE Superseded(r) \subseteq File
  BY DEF Superseded, Known

LEMMA CollectOldInv ==
  ASSUME IInv, NEW n \in Node, CollectOld(n)
  PROVE  IInv'
<1>0. TypeOK /\ RegistriesCoherent /\ reg[n] \in RegistryState
  BY DEF IInv, TypeOK
<1>1. PICK old \in SUBSET Superseded(reg[n]) : Local(n, CleanUp(reg[n], old))
  BY DEF CollectOld
<1>2. Sound(reg[n], CleanUp(reg[n], old))
  BY <1>0, SupersededFiles, CleanUpSound
<1>3. reg' \in [Node -> RegistryState] /\ RegistriesCoherent'
  BY <1>0, <1>1, <1>2, LocalSound
<1>4. moves' \in 0 .. MaxMoves
  BY <1>0, MoveType DEF CollectOld
<1> QED BY <1>3, <1>4 DEF CollectOld, IInv, TypeOK, DeletesAreMeant

LEMMA GreetInv ==
  ASSUME IInv, NEW n \in Node, NEW p \in Node, NEW type \in {"hello", "ping"},
         Greet(n, p, type)
  PROVE  IInv'
<1> DEFINE M == {[type |-> type, from |-> n, to |-> p, update |-> update[n]]}
<1>0. TypeOK /\ RegistriesCoherent
  BY DEF IInv
<1>1. reg' \in [Node -> RegistryState] /\ RegistriesCoherent'
  BY <1>0, UnchangedRegistries DEF Greet
<1>2. \A m \in M : m \in Message /\ (m.type = "delete" => m.file \in deleted')
  BY <1>0 DEF TypeOK, Message
<1>3. net' \subseteq net \cup M
  <2>1. Send(M)
    BY DEF Greet
  <2> QED BY <2>1, SendFromAdds DEF Send
<1> HIDE DEF M
<1>4. (\A m \in net' : m \in Message) /\ DeletesAreMeant'
  BY <1>2, <1>3, NetSound DEF Greet
<1> QED BY <1>0, <1>1, <1>4 DEF Greet, IInv, TypeOK

LEMMA DropPeerInv ==
  ASSUME IInv, NEW n \in Node, NEW p \in Node, DropPeer(n, p)
  PROVE  IInv'
<1>0. TypeOK /\ RegistriesCoherent /\ reg[n] \in RegistryState
  BY DEF IInv, TypeOK
<1>1. Sound(reg[n], RemovePeer(reg[n], p))
  BY <1>0, RemoveReplicasSound DEF RemovePeer
<1>2. reg' \in [Node -> RegistryState] /\ RegistriesCoherent'
  BY <1>0, <1>1, LocalSound DEF DropPeer
<1>3. moves' \in 0 .. MaxMoves
  BY <1>0, MoveType DEF DropPeer
<1>4. link' \in [Node -> SUBSET Node]
  BY <1>0 DEF DropPeer, TypeOK
<1> QED BY <1>2, <1>3, <1>4 DEF DropPeer, IInv, TypeOK, DeletesAreMeant

LEMMA RestartInv ==
  ASSUME IInv, NEW n \in Node, Restart(n)
  PROVE  IInv'
<1>0. TypeOK /\ RegistriesCoherent /\ reg[n] \in RegistryState /\ Coherent(reg[n])
  BY DEF IInv, TypeOK, RegistriesCoherent
<1>1. Sound(reg[n], Reload(reg[n]))
  BY <1>0, ReloadSound
<1>2. reg' \in [Node -> RegistryState] /\ RegistriesCoherent'
  BY <1>0, <1>1, LocalSound DEF Restart
<1>3. moves' \in 0 .. MaxMoves
  BY <1>0, MoveType DEF Restart
<1>4. update' \in [Node -> Time] /\ exchange' \in [Node -> BOOLEAN]
  BY <1>0, GossipAssumption DEF Restart, TypeOK, Time
<1> QED BY <1>2, <1>3, <1>4 DEF Restart, IInv, TypeOK, DeletesAreMeant

LEMMA ExchangeInv ==
  ASSUME IInv, NEW n \in Node, Exchange(n)
  PROVE  IInv'
<1> DEFINE M == {[type |-> "query", from |-> n, to |-> p, since |-> update[n],
                  files |-> Known(reg[n])] : p \in link[n]}
<1>0. TypeOK /\ RegistriesCoherent
  BY DEF IInv
<1>1. reg' \in [Node -> RegistryState] /\ RegistriesCoherent'
  BY <1>0, UnchangedRegistries DEF Exchange
<1>2. Known(reg[n]) \in SUBSET File
  BY DEF Known
<1>3. \A m \in M : m \in Message /\ (m.type = "delete" => m.file \in deleted')
  BY <1>0, <1>2 DEF TypeOK, Message
<1>4. net' \subseteq net \cup M
  <2>1. Send(M)
    BY DEF Exchange
  <2> QED BY <2>1, SendFromAdds DEF Send
<1> HIDE DEF M
<1>5. (\A m \in net' : m \in Message) /\ DeletesAreMeant'
  BY <1>3, <1>4, NetSound DEF Exchange
<1>6. exchange' \in [Node -> BOOLEAN]
  BY <1>0 DEF Exchange, TypeOK
<1> QED BY <1>0, <1>1, <1>5, <1>6 DEF Exchange, IInv, TypeOK

LEMMA HandleInv ==
  ASSUME IInv, NEW m \in net, Handle(m)
  PROVE  IInv'
<1>0. TypeOK /\ RegistriesCoherent /\ m \in Message /\ m.to \in Node
      /\ reg[m.to] \in RegistryState
  BY MessageFields DEF IInv, TypeOK
<1>1. ASSUME net' \subseteq net, deleted' = deleted
      PROVE  (\A k \in net' : k \in Message) /\ DeletesAreMeant'
  BY <1>1 DEF IInv, TypeOK, DeletesAreMeant
<1>2. CASE OnGreeting(m)
  <2>1. (\A k \in net' : k \in Message) /\ DeletesAreMeant'
    BY <1>1, <1>2, ReceiveAdds DEF OnGreeting
  <2>2. reg' \in [Node -> RegistryState] /\ RegistriesCoherent'
    BY <1>0, <1>2, UnchangedRegistries DEF OnGreeting
  <2>3. link' \in [Node -> SUBSET Node] /\ exchange' \in [Node -> BOOLEAN]
    <3>1. m.from \in Node
      BY <1>0, <1>2, MessageFields DEF OnGreeting
    <3>2. (exchange[m.to] \/ m.update > update[m.to]) \in BOOLEAN
      OBVIOUS
    <3>3. exchange' = [exchange EXCEPT ![m.to] = @ \/ m.update > update[m.to]]
      BY <1>2 DEF OnGreeting
    <3>4. exchange' \in [Node -> BOOLEAN]
      BY <1>0, <3>2, <3>3 DEF TypeOK
    <3>5. link' \in [Node -> SUBSET Node]
      BY <1>0, <1>2, <3>1 DEF OnGreeting, TypeOK
    <3> QED BY <3>4, <3>5
  <2> QED BY <1>0, <1>2, <2>1, <2>2, <2>3 DEF OnGreeting, IInv, TypeOK
<1>3. CASE OnQuery(m)
  <2> DEFINE r == reg[m.to]
             newer == IF m.files = Known(r) THEN {}
                      ELSE {f \in Known(r) : stamp[f] > m.since}
             M == {[type |-> "response", to |-> m.from, entries |-> Among(newer, r.cache)]}
  <2>1. net' \subseteq net \cup M
    <3>1. Reply(m, M)
      BY <1>3 DEF OnQuery
    <3> QED BY <3>1, ReplyAdds
  <2>2. Among(newer, r.cache) \in EntrySet
    <3>1. r.cache \in EntrySet
      BY <1>0 DEF RegistryState, EntrySet
    <3> HIDE DEF newer
    <3> QED BY <3>1, AmongIsEntrySet
  <2>3. m.from \in Node
    BY <1>0, <1>3, MessageFields DEF OnQuery
  <2>4. \A k \in M : k \in Message /\ (k.type = "delete" => k.file \in deleted')
    <3> HIDE DEF newer, r
    <3> QED BY <2>2, <2>3 DEF Message
  <2> HIDE DEF M
  <2>5. (\A k \in net' : k \in Message) /\ DeletesAreMeant'
    BY <1>3, <2>1, <2>4, NetSound DEF OnQuery
  <2>6. reg' \in [Node -> RegistryState] /\ RegistriesCoherent'
    BY <1>0, <1>3, UnchangedRegistries DEF OnQuery
  <2> QED BY <1>0, <1>3, <2>5, <2>6 DEF OnQuery, IInv, TypeOK
<1>4. CASE OnResponse(m)
  <2>1. (\A k \in net' : k \in Message) /\ DeletesAreMeant'
    BY <1>1, <1>4, ReceiveAdds DEF OnResponse
  <2>2. Sound(reg[m.to], Merge(reg[m.to], m.entries))
    BY <1>0, <1>4, MessageFields, MergeSound DEF OnResponse
  <2>3. reg' \in [Node -> RegistryState] /\ RegistriesCoherent'
    BY <1>0, <1>4, <2>2, LocalSound DEF OnResponse
  <2>4. now' \in Time /\ update' \in [Node -> Time]
    BY <1>0, <1>4, MarkUpdatedType DEF OnResponse
  <2> QED BY <1>0, <1>4, <2>1, <2>3, <2>4 DEF OnResponse, IInv, TypeOK
<1>5. CASE OnPublish(m)
  <2>1. (\A k \in net' : k \in Message) /\ DeletesAreMeant'
    BY <1>1, <1>5, ReceiveAdds DEF OnPublish
  <2>2. m.file \in File /\ m.from \in Node
    BY <1>0, <1>5, MessageFields DEF OnPublish
  <2>3. Sound(reg[m.to], AddAll(reg[m.to], Only(m.file, 1, {m.from})))
    <3>1. Only(m.file, 1, {m.from}) \in EntrySet
      BY <2>2, OnlyIsEntrySet
    <3> QED BY <1>0, <3>1, AddAllSound
  <2>4. reg' \in [Node -> RegistryState] /\ RegistriesCoherent'
    BY <1>0, <1>5, <2>3, LocalSound DEF OnPublish
  <2>5. now' \in Time /\ update' \in [Node -> Time]
    BY <1>0, <1>5, MarkUpdatedType DEF OnPublish
  <2> QED BY <1>0, <1>5, <2>1, <2>4, <2>5 DEF OnPublish, IInv, TypeOK
<1>6. CASE Reject(m)
  <2>1. (\A k \in net' : k \in Message) /\ DeletesAreMeant'
    BY <1>1, <1>6, ReceiveAdds DEF Reject
  <2>2. reg' \in [Node -> RegistryState] /\ RegistriesCoherent'
    BY <1>0, <1>6, UnchangedRegistries DEF Reject
  <2> QED BY <1>0, <1>6, <2>1, <2>2 DEF Reject, IInv, TypeOK
<1>7. CASE OnDelete(m)
  <2>1. (\A k \in net' : k \in Message) /\ DeletesAreMeant'
    BY <1>1, <1>7, ReceiveAdds DEF OnDelete
  <2>2. Sound(reg[m.to], MarkDeleted(reg[m.to], m.file))
    BY <1>0, <1>7, MessageFields, MarkDeletedSound DEF OnDelete
  <2>3. reg' \in [Node -> RegistryState] /\ RegistriesCoherent'
    BY <1>0, <1>7, <2>2, LocalSound DEF OnDelete
  <2>4. now' \in Time /\ update' \in [Node -> Time]
    BY <1>0, <1>7, MarkUpdatedType DEF OnDelete
  <2> QED BY <1>0, <1>7, <2>1, <2>3, <2>4 DEF OnDelete, IInv, TypeOK
<1>8. CASE OnAnnounce(m)
  <2>1. (\A k \in net' : k \in Message) /\ DeletesAreMeant'
    BY <1>1, <1>8, ReceiveAdds DEF OnAnnounce
  <2>2. Sound(reg[m.to], Increment(reg[m.to], m.file, m.node))
    BY <1>0, <1>8, MessageFields, IncrementSound DEF OnAnnounce
  <2>3. reg' \in [Node -> RegistryState] /\ RegistriesCoherent'
    BY <1>0, <1>8, <2>2, LocalSound DEF OnAnnounce
  <2>4. now' \in Time /\ update' \in [Node -> Time]
    BY <1>0, <1>8, MarkUpdatedType DEF OnAnnounce
  <2> QED BY <1>0, <1>8, <2>1, <2>3, <2>4 DEF OnAnnounce, IInv, TypeOK
<1> QED BY <1>2, <1>3, <1>4, <1>5, <1>6, <1>7, <1>8 DEF Handle

LEMMA StepInv == IInv /\ [Next]_vars => IInv'
<1> SUFFICES ASSUME IInv, [Next]_vars PROVE IInv'
  OBVIOUS
<1>1. CASE UNCHANGED vars
  <2>1. reg' \in [Node -> RegistryState] /\ RegistriesCoherent'
    BY <1>1, UnchangedRegistries DEF IInv, vars
  <2> QED BY <1>1, <2>1 DEF IInv, TypeOK, DeletesAreMeant, vars
<1>2. CASE Next
  BY <1>2, PublishInv, DeleteInv, CountAgainInv, ReplicateInv, ShedInv, CollectOldInv,
     GreetInv, DropPeerInv, RestartInv, ExchangeInv, HandleInv DEF Next
<1> QED BY <1>1, <1>2

\* The conjunction that the three properties below rest on.
THEOREM Invariant == Spec => []IInv
  BY InitInv, StepInv, PTL DEF Spec

\* Every registry, the clocks and the messages keep their shape: no count
\* becomes negative, however often replicas are counted and removed.
THEOREM TypeCorrect == Spec => []TypeOK
  BY Invariant, PTL DEF IInv

\* At every node the cache agrees with the tables, whatever the nodes have
\* told each other and whenever they were restarted.
THEOREM RegistriesCoherentHolds == Spec => []RegistriesCoherent
  BY Invariant, PTL DEF IInv

-----------------------------------------------------------------------------
(* What a node knows *)

Allowed(n, f) == f \in deleted' \/ \E g \in Known(reg[n]) : Prev[g] = f

\* A step that changes one registry, and loses no file but those in L.
LEMMA LocalForgets ==
  ASSUME TypeOK, NEW p \in Node, NEW r, NEW L, Local(p, r), Known(reg[p]) \ L \subseteq Known(r),
         \A f \in L : Allowed(p, f),
         NEW n \in Node, NEW f \in File, Forgets(n, f)
  PROVE  Allowed(n, f)
<1>1. reg' = [reg EXCEPT ![p] = r] /\ reg \in [Node -> RegistryState]
  BY DEF Local, TypeOK
<1>2. CASE n # p
  <2>1. reg'[n] = reg[n]
    BY <1>1, <1>2
  <2> QED BY <2>1 DEF Forgets
<1>3. CASE n = p
  <2>1. reg'[n] = r
    BY <1>1, <1>3
  <2>2. f \in L
    BY <1>3, <2>1 DEF Forgets
  <2> QED BY <1>3, <2>2
<1> QED BY <1>2, <1>3

LEMMA StepForgets ==
  ASSUME IInv, [Next]_vars, NEW n \in Node, NEW f \in File, Forgets(n, f)
  PROVE  Allowed(n, f)
<1>0. TypeOK /\ \A p \in Node : reg[p] \in RegistryState /\ Coherent(reg[p])
  BY DEF IInv, TypeOK, RegistriesCoherent
<1>1. ASSUME NEW p \in Node, NEW r, Local(p, r), Known(reg[p]) \subseteq Known(r)
      PROVE  Allowed(n, f)
  <2> DEFINE L == {}
  <2>1. Known(reg[p]) \ L \subseteq Known(r)
    BY <1>1
  <2>2. \A y \in L : Allowed(p, y)
    OBVIOUS
  <2> HIDE DEF L
  <2> QED BY <1>0, <1>1, <2>1, <2>2, LocalForgets
<1>2. ASSUME UNCHANGED reg PROVE Allowed(n, f)
  BY <1>2 DEF Forgets
<1>3. ASSUME NEW p \in Node, NEW x \in File, Publish(p, x) PROVE Allowed(n, f)
  <2>1. Only(x, 1, {p}) \in EntrySet
    BY OnlyIsEntrySet
  <2> QED BY <1>0, <1>1, <1>3, <2>1, AddAllSound DEF Publish
<1>4. ASSUME NEW p \in Node, NEW x \in File, Delete(p, x) PROVE Allowed(n, f)
  <2>1. Local(p, MarkDeleted(reg[p], x)) /\ deleted' = deleted \cup {x}
    BY <1>4 DEF Delete
  <2>2. Known(reg[p]) \ {x} \subseteq Known(MarkDeleted(reg[p], x))
    BY <1>0, MarkDeletedSound
  <2> DEFINE L == {x}
  <2>3. Known(reg[p]) \ L \subseteq Known(MarkDeleted(reg[p], x))
    BY <2>2
  <2>4. \A y \in L : Allowed(p, y)
    BY <2>1 DEF Allowed
  <2> HIDE DEF L
  <2> QED BY <1>0, <2>1, <2>3, <2>4, LocalForgets
<1>5. ASSUME NEW p \in Node, NEW x \in File, CountAgain(p, x) PROVE Allowed(n, f)
  BY <1>0, <1>1, <1>5, IncrementSound DEF CountAgain
<1>6. ASSUME NEW p \in Node, NEW x \in File, Replicate(p, x) PROVE Allowed(n, f)
  BY <1>0, <1>1, <1>6, IncrementTwiceSound DEF Replicate
<1>7. ASSUME NEW p \in Node, NEW x \in File, Shed(p, x) PROVE Allowed(n, f)
  BY <1>0, <1>1, <1>7, RemoveReplicasSound DEF Shed, Decrement
<1>8. ASSUME NEW p \in Node, CollectOld(p) PROVE Allowed(n, f)
  <2>1. PICK old \in SUBSET Superseded(reg[p]) : Local(p, CleanUp(reg[p], old))
    BY <1>8 DEF CollectOld
  <2>2. Known(reg[p]) \ old \subseteq Known(CleanUp(reg[p], old))
    BY <1>0, <2>1, SupersededFiles, CleanUpSound
  <2>3. \A y \in old : Allowed(p, y)
    BY <2>1 DEF Superseded, Allowed
  <2> QED BY <1>0, <2>1, <2>2, <2>3, LocalForgets
<1>9. ASSUME NEW p \in Node, NEW q \in Node, DropPeer(p, q) PROVE Allowed(n, f)
  <2>1. Known(RemovePeer(reg[p], q)) = Known(reg[p])
    BY <1>0, RemoveReplicasSound DEF RemovePeer
  <2> QED BY <1>1, <1>9, <2>1 DEF DropPeer
<1>10. ASSUME NEW p \in Node, Restart(p) PROVE Allowed(n, f)
  <2>1. Known(Reload(reg[p])) = Known(reg[p])
    BY <1>0, ReloadSound
  <2> QED BY <1>1, <1>10, <2>1 DEF Restart
<1>11. ASSUME NEW p \in Node, NEW q \in Node, NEW type \in {"hello", "ping"}, Greet(p, q, type)
       PROVE  Allowed(n, f)
  BY <1>2, <1>11 DEF Greet
<1>12. ASSUME NEW p \in Node, Exchange(p) PROVE Allowed(n, f)
  BY <1>2, <1>12 DEF Exchange
<1>13. ASSUME NEW m \in net, Handle(m) PROVE Allowed(n, f)
  <2>0. m \in Message /\ m.to \in Node /\ (m.type = "delete" => m.file \in deleted)
    BY MessageFields DEF IInv, TypeOK, DeletesAreMeant
  <2>1. CASE OnGreeting(m) \/ OnQuery(m) \/ Reject(m)
    BY <1>2, <2>1 DEF OnGreeting, OnQuery, Reject
  <2>2. CASE OnResponse(m)
    <3>1. Known(reg[m.to]) \subseteq Known(Merge(reg[m.to], m.entries))
      BY <1>0, <2>0, <2>2, MessageFields, MergeSound DEF OnResponse
    <3> QED BY <1>1, <2>0, <2>2, <3>1 DEF OnResponse
  <2>3. CASE OnPublish(m)
    <3>1. Only(m.file, 1, {m.from}) \in EntrySet
      BY <2>0, <2>3, MessageFields, OnlyIsEntrySet DEF OnPublish
    <3>2. Known(reg[m.to]) \subseteq Known(AddAll(reg[m.to], Only(m.file, 1, {m.from})))
      BY <1>0, <2>0, <3>1, AddAllSound
    <3> QED BY <1>1, <2>0, <2>3, <3>2 DEF OnPublish
  <2>4. CASE OnDelete(m)
    <3>1. Local(m.to, MarkDeleted(reg[m.to], m.file)) /\ m.file \in deleted'
      BY <2>0, <2>4 DEF OnDelete
    <3>2. Known(reg[m.to]) \ {m.file} \subseteq Known(MarkDeleted(reg[m.to], m.file))
      BY <1>0, <2>0, <2>4, MessageFields, MarkDeletedSound DEF OnDelete
    <3> DEFINE L == {m.file}
    <3>3. Known(reg[m.to]) \ L \subseteq Known(MarkDeleted(reg[m.to], m.file))
      BY <3>2
    <3>4. \A y \in L : Allowed(m.to, y)
      BY <3>1 DEF Allowed
    <3> HIDE DEF L
    <3> QED BY <1>0, <2>0, <3>1, <3>3, <3>4, LocalForgets
  <2>5. CASE OnAnnounce(m)
    <3>1. Known(Increment(reg[m.to], m.file, m.node)) = Known(reg[m.to])
      BY <1>0, <2>0, <2>5, MessageFields, IncrementSound DEF OnAnnounce
    <3> QED BY <1>1, <2>0, <2>5, <3>1 DEF OnAnnounce
  <2> QED BY <1>13, <2>1, <2>2, <2>3, <2>4, <2>5 DEF Handle
<1>14. CASE UNCHANGED vars
  BY <1>2, <1>14 DEF vars
<1> QED
  BY <1>3, <1>4, <1>5, <1>6, <1>7, <1>8, <1>9, <1>10, <1>11, <1>12, <1>13, <1>14 DEF Next

\* A node forgets a file only when the author has deleted it or a newer version
\* is known to it: no loss of a peer, no merge and no restart takes one away.
THEOREM KnownIsDurableHolds == Spec => KnownIsDurable
<1>1. IInv /\ [Next]_vars =>
        [\A n \in Node, f \in File : Forgets(n, f) =>
           f \in deleted' \/ \E g \in Known(reg[n]) : Prev[g] = f]_vars
  BY StepForgets DEF Allowed
<1> QED BY Invariant, <1>1, PTL DEF Spec, KnownIsDurable

-----------------------------------------------------------------------------
(* Where a node learns of a file *)

\* What an operation adds to the files of a registry.
LEMMA AddAllAdds ==
  ASSUME NEW r \in RegistryState, NEW e \in EntrySet, NEW f \in Known(AddAll(r, e))
  PROVE  f \in Known(r) \/ (f \in File /\ e[f] # NoEntry)
  BY DEF AddAll, Known

LEMMA OnlyAdds ==
  ASSUME NEW x \in File, NEW n \in Node, NEW f \in File, Only(x, 1, {n})[f] # NoEntry
  PROVE  f = x
  BY DEF Only

LEMMA MergeAdds ==
  ASSUME NEW r \in RegistryState, NEW e \in EntrySet, NEW f \in Known(Merge(r, e))
  PROVE  f \in Known(r) \/ (f \in File /\ e[f] # NoEntry)
<1>1. Among(File \ Known(r), e) \in EntrySet
  BY AmongIsEntrySet
<1>2. f \in Known(r) \/ (f \in File /\ Among(File \ Known(r), e)[f] # NoEntry)
  BY <1>1, AddAllAdds DEF Merge
<1> QED BY <1>2 DEF Among

LEMMA RemovalsAdd ==
  ASSUME NEW r \in RegistryState
  PROVE  /\ \A f \in File : Known(MarkDeleted(r, f)) \subseteq Known(r)
         /\ \A old \in SUBSET File : Known(CleanUp(r, old)) \subseteq Known(r)
  BY DEF MarkDeleted, CleanUp, Known

Told(n, f) == stamp[f] = 0 \/ \E m \in net : m.to = n /\ Carries(m, f)

\* A step that changes one registry, and adds nothing but what its node is told.
LEMMA LocalLearns ==
  ASSUME TypeOK, NEW p \in Node, NEW r, Local(p, r),
         \A f \in Known(r) : f \in Known(reg[p]) \/ Told(p, f),
         NEW n \in Node, NEW f \in File, Learns(n, f)
  PROVE  Told(n, f)
<1>1. reg' = [reg EXCEPT ![p] = r] /\ reg \in [Node -> RegistryState]
  BY DEF Local, TypeOK
<1>2. CASE n # p
  <2>1. reg'[n] = reg[n]
    BY <1>1, <1>2
  <2> QED BY <2>1 DEF Learns
<1>3. CASE n = p
  <2>1. reg'[n] = r
    BY <1>1, <1>3
  <2> QED BY <1>3, <2>1 DEF Learns
<1> QED BY <1>2, <1>3

LEMMA StepLearns ==
  ASSUME IInv, [Next]_vars, NEW n \in Node, NEW f \in File, Learns(n, f)
  PROVE  Told(n, f)
<1>0. TypeOK /\ \A p \in Node : reg[p] \in RegistryState /\ Coherent(reg[p])
  BY DEF IInv, TypeOK, RegistriesCoherent
<1>1. ASSUME NEW p \in Node, NEW r, Local(p, r), Known(r) \subseteq Known(reg[p])
      PROVE  Told(n, f)
  BY <1>0, <1>1, LocalLearns
<1>2. ASSUME UNCHANGED reg PROVE Told(n, f)
  BY <1>2 DEF Learns
<1>3. ASSUME NEW p \in Node, NEW x \in File, Publish(p, x) PROVE Told(n, f)
  <2> DEFINE r == AddAll(reg[p], Only(x, 1, {p}))
  <2>1. Local(p, r) /\ stamp[x] = 0
    BY <1>3 DEF Publish
  <2>2. Only(x, 1, {p}) \in EntrySet
    BY OnlyIsEntrySet
  <2>3. \A y \in Known(r) : y \in Known(reg[p]) \/ Told(p, y)
    BY <1>0, <2>1, <2>2, AddAllAdds, OnlyAdds DEF Told
  <2> HIDE DEF r
  <2> QED BY <1>0, <2>1, <2>3, LocalLearns
<1>4. ASSUME NEW p \in Node, NEW x \in File, Delete(p, x) PROVE Told(n, f)
  BY <1>0, <1>1, <1>4, RemovalsAdd DEF Delete
<1>5. ASSUME NEW p \in Node, NEW x \in File, CountAgain(p, x) PROVE Told(n, f)
  BY <1>0, <1>1, <1>5, IncrementSound DEF CountAgain
<1>6. ASSUME NEW p \in Node, NEW x \in File, Replicate(p, x) PROVE Told(n, f)
  <2>1. /\ Increment(reg[p], x, p) \in RegistryState
        /\ Known(Increment(reg[p], x, p)) = Known(reg[p])
    BY <1>0, IncrementSound DEF Sound
  <2>2. Known(Increment(Increment(reg[p], x, p), x, p)) = Known(reg[p])
    BY <2>1, IncrementSound
  <2> QED BY <1>1, <1>6, <2>2 DEF Replicate
<1>7. ASSUME NEW p \in Node, NEW x \in File, Shed(p, x) PROVE Told(n, f)
  BY <1>0, <1>1, <1>7, RemoveReplicasSound DEF Shed, Decrement
<1>8. ASSUME NEW p \in Node, CollectOld(p) PROVE Told(n, f)
  <2>1. PICK old \in SUBSET Superseded(reg[p]) : Local(p, CleanUp(reg[p], old))
    BY <1>8 DEF CollectOld
  <2>2. Known(CleanUp(reg[p], old)) \subseteq Known(reg[p])
    BY <1>0, <2>1, SupersededFiles, RemovalsAdd
  <2> QED BY <1>1, <2>1, <2>2
<1>9. ASSUME NEW p \in Node, NEW q \in Node, DropPeer(p, q) PROVE Told(n, f)
  <2>1. Known(RemovePeer(reg[p], q)) = Known(reg[p])
    BY <1>0, RemoveReplicasSound DEF RemovePeer
  <2> QED BY <1>1, <1>9, <2>1 DEF DropPeer
<1>10. ASSUME NEW p \in Node, Restart(p) PROVE Told(n, f)
  <2>1. Known(Reload(reg[p])) = Known(reg[p])
    BY <1>0, ReloadSound
  <2> QED BY <1>1, <1>10, <2>1 DEF Restart
<1>11. ASSUME NEW p \in Node, NEW q \in Node, NEW type \in {"hello", "ping"}, Greet(p, q, type)
       PROVE  Told(n, f)
  BY <1>2, <1>11 DEF Greet
<1>12. ASSUME NEW p \in Node, Exchange(p) PROVE Told(n, f)
  BY <1>2, <1>12 DEF Exchange
<1>13. ASSUME NEW m \in net, Handle(m) PROVE Told(n, f)
  <2>0. m \in Message /\ m.to \in Node
    BY MessageFields DEF IInv, TypeOK
  <2>1. CASE OnGreeting(m) \/ OnQuery(m) \/ Reject(m)
    BY <1>2, <2>1 DEF OnGreeting, OnQuery, Reject
  <2>2. CASE OnResponse(m)
    <3> DEFINE r == Merge(reg[m.to], m.entries)
    <3>1. Local(m.to, r) /\ m.type = "response" /\ m.entries \in EntrySet
      BY <2>0, <2>2, MessageFields DEF OnResponse
    <3>2. \A y \in Known(r) : y \in Known(reg[m.to]) \/ (y \in File /\ m.entries[y] # NoEntry)
      BY <1>0, <2>0, <3>1, MergeAdds
    <3>3. \A y \in Known(r) : y \in Known(reg[m.to]) \/ Told(m.to, y)
      BY <1>13, <3>1, <3>2 DEF Told, Carries
    <3> HIDE DEF r
    <3> QED BY <1>0, <2>0, <3>1, <3>3, LocalLearns
  <2>3. CASE OnPublish(m)
    <3> DEFINE r == AddAll(reg[m.to], Only(m.file, 1, {m.from}))
    <3>1. /\ Local(m.to, r) /\ m.type \in {"publish", "update"}
          /\ m.file \in File /\ m.from \in Node
      BY <2>0, <2>3, MessageFields DEF OnPublish
    <3>2. Only(m.file, 1, {m.from}) \in EntrySet
      BY <3>1, OnlyIsEntrySet
    <3>3. \A y \in Known(r) : y \in Known(reg[m.to]) \/ y = m.file
      BY <1>0, <2>0, <3>1, <3>2, AddAllAdds, OnlyAdds
    <3>4. Told(m.to, m.file)
      BY <1>13, <3>1 DEF Told, Carries
    <3>5. \A y \in Known(r) : y \in Known(reg[m.to]) \/ Told(m.to, y)
      BY <3>3, <3>4
    <3> HIDE DEF r
    <3> QED BY <1>0, <2>0, <3>1, <3>5, LocalLearns
  <2>4. CASE OnDelete(m)
    <3>1. Known(MarkDeleted(reg[m.to], m.file)) \subseteq Known(reg[m.to])
      BY <1>0, <2>0, <2>4, MessageFields, RemovalsAdd DEF OnDelete
    <3> QED BY <1>1, <2>0, <2>4, <3>1 DEF OnDelete
  <2>5. CASE OnAnnounce(m)
    <3>1. Known(Increment(reg[m.to], m.file, m.node)) = Known(reg[m.to])
      BY <1>0, <2>0, <2>5, MessageFields, IncrementSound DEF OnAnnounce
    <3> QED BY <1>1, <2>0, <2>5, <3>1 DEF OnAnnounce
  <2> QED BY <1>13, <2>1, <2>2, <2>3, <2>4, <2>5 DEF Handle
<1>14. CASE UNCHANGED vars
  BY <1>2, <1>14 DEF vars
<1> QED
  BY <1>3, <1>4, <1>5, <1>6, <1>7, <1>8, <1>9, <1>10, <1>11, <1>12, <1>13, <1>14 DEF Next

\* A node takes a file up, new or deleted before, only when its author publishes
\* it there or from a message that carries it.
THEOREM LearnsByMessageHolds == Spec => LearnsByMessage
<1>1. IInv /\ [Next]_vars =>
        [\A n \in Node, f \in File : Learns(n, f) =>
           stamp[f] = 0 \/ \E m \in net : m.to = n /\ Carries(m, f)]_vars
  BY StepLearns DEF Told
<1> QED BY Invariant, <1>1, PTL DEF Spec, LearnsByMessage

-----------------------------------------------------------------------------
(* Signatures *)

Signing == {"publish", "update", "delete"}
Honest(m) == m.type \in Signing =>
  Verifies(m) \/ (m.type = "publish" /\ m.signed = m.sent + 1)

\* The messages of a user's action at t.
LEMMA StampsHonest ==
  ASSUME NEW t \in Instants, NEW m, m.type \in Signing,
         m.signed = Signed(m.type, t), m.sent = Sent(m.type, t)
  PROVE  Honest(m)
<1>1. m.sent \in Nat
  BY StampsType
<1>2. CASE m.sent = m.signed
  <2>1. Encode(Decode(m.sent)) = m.sent
    BY <1>1, StampsSurvive
  <2> QED BY <1>2, <2>1 DEF Honest, Verifies
<1>3. CASE m.sent # m.signed
  <2>1. m.type = "publish" /\ m.signed = m.sent + 1
    BY <1>3, StampsType DEF Signing
  <2> QED BY <2>1 DEF Honest
<1> QED BY <1>2, <1>3

LEMMA HonestNet ==
  ASSUME SignaturesVerify, NEW M, net' \subseteq net \cup M, \A m \in M : Honest(m)
  PROVE  SignaturesVerify'
<1>1. \A m \in net : Honest(m)
  BY DEF SignaturesVerify, Honest, Signing
<1>2. \A m \in net' : Honest(m)
  BY <1>1
<1> QED BY <1>2 DEF SignaturesVerify, Honest, Signing, Verifies

LEMMA StepVerifies == SignaturesVerify /\ [Next]_vars => SignaturesVerify'
<1> SUFFICES ASSUME SignaturesVerify, [Next]_vars PROVE SignaturesVerify'
  OBVIOUS
<1>1. ASSUME net' \subseteq net PROVE SignaturesVerify'
  <2> DEFINE M == {}
  <2>1. net' \subseteq net \cup M /\ \A m \in M : Honest(m)
    BY <1>1
  <2> HIDE DEF M
  <2> QED BY <2>1, HonestNet
<1>2. ASSUME NEW base \in SUBSET net, NEW M, SendFrom(base, M), \A m \in M : m.type \notin Signing
      PROVE  SignaturesVerify'
  <2>1. net' \subseteq net \cup M
    BY <1>2, SendFromAdds
  <2>2. \A m \in M : Honest(m)
    BY <1>2 DEF Honest
  <2> QED BY <2>1, <2>2, HonestNet
<1>3. ASSUME NEW n \in Node, NEW f \in File, Publish(n, f) PROVE SignaturesVerify'
  <2> DEFINE type == IF Prev[f] = NoFile THEN "publish" ELSE "update"
  <2>1. PICK t \in Instants :
          Send({[type |-> type, from |-> n, to |-> p, file |-> f, signed |-> Signed(type, t),
                 sent |-> Sent(type, t)] : p \in link[n]})
    BY <1>3 DEF Publish
  <2> DEFINE M == {[type |-> type, from |-> n, to |-> p, file |-> f, signed |-> Signed(type, t),
                    sent |-> Sent(type, t)] : p \in link[n]}
  <2>2. net' \subseteq net \cup M
    BY <2>1, SendFromAdds DEF Send
  <2>3. \A m \in M : m.type \in Signing /\ m.signed = Signed(m.type, t) /\ m.sent = Sent(m.type, t)
    BY DEF Signing
  <2> HIDE DEF M, type
  <2>4. \A m \in M : Honest(m)
    BY <2>3, StampsHonest
  <2> QED BY <2>2, <2>4, HonestNet
<1>4. ASSUME NEW n \in Node, NEW f \in File, Delete(n, f) PROVE SignaturesVerify'
  <2>1. PICK t \in Instants :
          Send({[type |-> "delete", to |-> p, file |-> f, signed |-> Signed("delete", t),
                 sent |-> Sent("delete", t)] : p \in link[n]})
    BY <1>4 DEF Delete
  <2> DEFINE M == {[type |-> "delete", to |-> p, file |-> f, signed |-> Signed("delete", t),
                    sent |-> Sent("delete", t)] : p \in link[n]}
  <2>2. net' \subseteq net \cup M
    BY <2>1, SendFromAdds DEF Send
  <2>3. \A m \in M : m.type \in Signing /\ m.signed = Signed(m.type, t) /\ m.sent = Sent(m.type, t)
    BY DEF Signing
  <2> HIDE DEF M
  <2>4. \A m \in M : Honest(m)
    BY <2>3, StampsHonest
  <2> QED BY <2>2, <2>4, HonestNet
<1>5. ASSUME NEW n \in Node, NEW f \in File, Replicate(n, f) PROVE SignaturesVerify'
  <2> DEFINE M == {[type |-> "announce", node |-> n, to |-> p, file |-> f] : p \in link[n]}
  <2>1. SendFrom(net, M) /\ \A m \in M : m.type \notin Signing
    BY <1>5 DEF Replicate, Send, Signing
  <2> HIDE DEF M
  <2> QED BY <1>2, <2>1
<1>6. ASSUME NEW n \in Node, NEW p \in Node, NEW type \in {"hello", "ping"}, Greet(n, p, type)
      PROVE  SignaturesVerify'
  <2> DEFINE M == {[type |-> type, from |-> n, to |-> p, update |-> update[n]]}
  <2>1. SendFrom(net, M) /\ \A m \in M : m.type \notin Signing
    BY <1>6 DEF Greet, Send, Signing
  <2> HIDE DEF M
  <2> QED BY <1>2, <2>1
<1>7. ASSUME NEW n \in Node, Exchange(n) PROVE SignaturesVerify'
  <2> DEFINE M == {[type |-> "query", from |-> n, to |-> p, since |-> update[n],
                    files |-> Known(reg[n])] : p \in link[n]}
  <2>1. SendFrom(net, M) /\ \A m \in M : m.type \notin Signing
    BY <1>7 DEF Exchange, Send, Signing
  <2> HIDE DEF M
  <2> QED BY <1>2, <2>1
<1>8. ASSUME NEW k \in net, OnQuery(k) PROVE SignaturesVerify'
  <2>1. PICK e : Reply(k, {[type |-> "response", to |-> k.from, entries |-> e]})
    BY <1>8 DEF OnQuery
  <2> DEFINE M == {[type |-> "response", to |-> k.from, entries |-> e]}
  <2>2. \A m \in M : Honest(m)
    BY DEF Honest, Signing
  <2>3. net' \subseteq net \cup M
    BY <2>1, ReplyAdds
  <2> HIDE DEF M
  <2> QED BY <2>2, <2>3, HonestNet
<1>9. ASSUME NEW k \in net, Handle(k), ~OnQuery(k) PROVE SignaturesVerify'
  <2>1. Receive(k)
    BY <1>9 DEF Handle, OnGreeting, OnResponse, OnPublish, Reject, OnDelete, OnAnnounce
  <2> QED BY <1>1, <2>1, ReceiveAdds
<1>10. CASE UNCHANGED net
  BY <1>1, <1>10
<1>11. CASE Next
  <2>1. ASSUME NEW n \in Node, NEW p \in Node, NEW f \in File,
               CountAgain(n, f) \/ Shed(n, f) \/ CollectOld(n) \/ DropPeer(n, p) \/ Restart(n)
        PROVE  UNCHANGED net
    BY <2>1 DEF CountAgain, Shed, CollectOld, DropPeer, Restart
  <2> USE <1>11 DEF Next
  <2>2. CASE \E n \in Node, f \in File : CountAgain(n, f) \/ Shed(n, f)
    BY <1>10, <2>1, <2>2
  <2>3. CASE \E n, p \in Node : CollectOld(n) \/ DropPeer(n, p) \/ Restart(n)
    BY <1>10, <2>3 DEF CollectOld, DropPeer, Restart
  <2> QED BY <1>3, <1>4, <1>5, <1>6, <1>7, <1>8, <1>9, <2>2, <2>3
<1> QED BY <1>10, <1>11 DEF vars

\* Whenever users act: what they sign verifies at every receiver after the
\* conversions on both sides, except publications signed one microsecond later
\* than they are sent.
THEOREM SignaturesVerifyHolds == Spec => []SignaturesVerify
<1>1. Init => SignaturesVerify
  BY DEF Init, SignaturesVerify
<1> QED BY <1>1, StepVerifies, PTL DEF Spec
=============================================================================
