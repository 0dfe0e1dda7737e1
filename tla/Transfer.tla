------------------------------ MODULE Transfer ------------------------------
(***************************************************************************)
(* A file transfer with both its sides and the network: the node of        *)
(* Download, and at each host the receive thread, which takes requests and *)
(* chunk ACKs, and the scheduler thread, which sends chunks and checks on  *)
(* them.  A datagram may be lost or late.  A FILE_CHUNK that the reliable   *)
(* layer sends again does what the copy of an early check does.            *)
(***************************************************************************)
EXTENDS Download

CONSTANTS MaxRetries,  \* config.max_retries
          MaxFaults    \* bound: losses, errors, deletions and restarts here

ASSUME TransferAssumption ==
  MaxRetries \in Nat \ {0} /\ MaxFaults \in Nat

VARIABLES
  hosts,    \* whether each host has the file
  send,     \* its queued SEND_CHUNK actions
  check,    \* its queued CHECK_CHUNK_ACK actions
  arm,      \* the chunk it has sent and not yet queued a check for
  retries,  \* transfer_chunks of "ul:<file>:<node>": retries of each chunk
  net,      \* messages
  faults,   \* history: counter for the bound
  served,   \* history: hosts that have taken up a request
  acked,    \* history: hosts that have heard of the last chunk since then
  broken    \* history: hosts at which a send raised, or that restarted

host == <<hosts, send, check, arm, retries, faults, served, acked, broken>>
vars == <<nodeVars, host, net>>

NoChunk == -1
Message == [type : {"request"}, host : Host]
           \cup [type : {"chunk", "ack"}, host : Host, chunk : Chunk]
Request(h) == [type |-> "request", host |-> h]
ChunkMsg(h, i) == [type |-> "chunk", host |-> h, chunk |-> i]
AckMsg(h, i) == [type |-> "ack", host |-> h, chunk |-> i]

Init ==
  /\ NodeInit
  /\ hosts = [h \in Host |-> TRUE]
  /\ send = [h \in Host |-> {}]
  /\ check = [h \in Host |-> {}]
  /\ arm = [h \in Host |-> NoChunk]
  /\ retries = [h \in Host |-> [i \in Chunk |-> 0]]
  /\ net = {}
  /\ faults = 0
  /\ served = {} /\ acked = {} /\ broken = {}

Fault == faults < MaxFaults /\ faults' = faults + 1

-----------------------------------------------------------------------------
(* The node's steps that send or receive *)

AskFor(t, h) == Begin(t, h) /\ net' = net \cup {Request(h)} /\ UNCHANGED host
\* Mutant: a thread for each datagram, so one may come in the midst of another.
TakeChunkAtOnce(h, i) ==
  /\ ChunkMsg(h, i) \in net /\ net' = net \ {ChunkMsg(h, i)}
  /\ kept' = kept \cup {i}
  /\ recv' = [pc |-> "count", host |-> h, chunk |-> i]
  /\ UNCHANGED <<total, got, disk, entry, call, asked, calls, trouble, spent, torn, host>>
TakeChunk(h, i) ==
  /\ ChunkMsg(h, i) \in net /\ net' = net \ {ChunkMsg(h, i)}
  /\ Take(h, i) /\ UNCHANGED host
CountChunk == Count /\ net' = net \cup {AckMsg(recv.host, recv.chunk)} /\ UNCHANGED host

\* The node's other steps
NodeStep ==
  /\ \/ Delete \/ Evict \/ Crash \/ CountFails \/ AfterCount
     \/ \E t \in Caller : CallerStep(t)
  /\ UNCHANGED <<host, net>>

-----------------------------------------------------------------------------
(* A host: its receive thread *)

\* _on_file_request
OnRequest(h) ==
  /\ Request(h) \in net /\ net' = net \ {Request(h)}
  /\ IF hosts[h] THEN /\ send' = [send EXCEPT ![h] = @ \cup {0}]
                      /\ served' = served \cup {h} /\ acked' = acked \ {h}
                 ELSE UNCHANGED <<send, served, acked>>
  /\ UNCHANGED <<nodeVars, hosts, check, arm, retries, faults, broken>>

\* Mutant: the acknowledged chunk is sent again.
OnAckRepeats(h, i) ==
  /\ AckMsg(h, i) \in net /\ net' = net \ {AckMsg(h, i)}
  /\ check' = [check EXCEPT ![h] = @ \ {i}]
  /\ send' = [send EXCEPT ![h] = @ \cup {i}]
  /\ acked' = IF i = N - 1 THEN acked \cup {h} ELSE acked
  /\ UNCHANGED <<nodeVars, hosts, arm, retries, faults, served, broken>>

\* _on_file_chunk_ack: the checks of the chunk are cancelled and the next
\* chunk is queued, whether or not an earlier ACK has done so.
OnAck(h, i) ==
  /\ AckMsg(h, i) \in net /\ net' = net \ {AckMsg(h, i)}
  /\ check' = [check EXCEPT ![h] = @ \ {i}]
  /\ send' = [send EXCEPT ![h] = @ \cup {i + 1}]
  /\ acked' = IF i = N - 1 THEN acked \cup {h} ELSE acked
  /\ UNCHANGED <<nodeVars, hosts, arm, retries, faults, served, broken>>

-----------------------------------------------------------------------------
(* A host: its scheduler thread.  Equal actions in the queue count as one: *)
(* the second does what a later copy of the datagram would set off.        *)

\* The chunk leaves and the check of it is queued next, or sendto raises.
SendChunk(h, i) ==
  \/ /\ net' = net \cup {ChunkMsg(h, i)}
     /\ arm' = [arm EXCEPT ![h] = i]
     /\ UNCHANGED <<broken, faults>>
  \/ Fault /\ broken' = broken \cup {h} /\ UNCHANGED <<net, arm>>

\* Mutant: the chunk after the last one is sent.
ActSendChunkPast(h, i) ==
  /\ arm[h] = NoChunk /\ i \in send[h]
  /\ send' = [send EXCEPT ![h] = @ \ {i}]
  /\ IF hosts[h] THEN SendChunk(h, i) ELSE UNCHANGED <<net, arm, broken, faults>>
  /\ UNCHANGED <<nodeVars, hosts, check, retries, served, acked>>

\* _act_send_chunk
ActSendChunk(h, i) ==
  /\ arm[h] = NoChunk /\ i \in send[h]
  /\ send' = [send EXCEPT ![h] = @ \ {i}]
  /\ IF hosts[h] /\ i < N THEN SendChunk(h, i) ELSE UNCHANGED <<net, arm, broken, faults>>
  /\ UNCHANGED <<nodeVars, hosts, check, retries, served, acked>>

\* _act_check_chunk_ack.  Beyond the limit the count does not matter.
ActCheckChunkAck(h, i) ==
  /\ arm[h] = NoChunk /\ i \in check[h]
  /\ check' = [check EXCEPT ![h] = @ \ {i}]
  /\ retries' = [retries EXCEPT ![h][i] = IF @ < MaxRetries THEN @ + 1 ELSE @]
  /\ IF retries[h][i] + 1 < MaxRetries /\ hosts[h]
       THEN SendChunk(h, i) ELSE UNCHANGED <<net, arm, broken, faults>>
  /\ UNCHANGED <<nodeVars, hosts, send, served, acked>>

\* Mutant: a chunk that has been sent again is not checked any more.
QueueCheckOnce(h) ==
  /\ arm[h] # NoChunk
  /\ check' = [check EXCEPT ![h] = IF retries[h][arm[h]] = 0 THEN @ \cup {arm[h]} ELSE @]
  /\ arm' = [arm EXCEPT ![h] = NoChunk]
  /\ UNCHANGED <<nodeVars, hosts, send, retries, net, faults, served, acked, broken>>

\* The last statement of both.
QueueCheck(h) ==
  /\ arm[h] # NoChunk
  /\ check' = [check EXCEPT ![h] = @ \cup {arm[h]}]
  /\ arm' = [arm EXCEPT ![h] = NoChunk]
  /\ UNCHANGED <<nodeVars, hosts, send, retries, net, faults, served, acked, broken>>

-----------------------------------------------------------------------------
(* Faults *)

HostDeletes(h) ==
  /\ Fault /\ hosts[h] /\ hosts' = [hosts EXCEPT ![h] = FALSE]
  /\ UNCHANGED <<nodeVars, send, check, arm, retries, net, served, acked, broken>>

\* Queues are in memory, retries in the database.
HostRestarts(h) ==
  /\ Fault /\ broken' = broken \cup {h}
  /\ send' = [send EXCEPT ![h] = {}] /\ check' = [check EXCEPT ![h] = {}]
  /\ arm' = [arm EXCEPT ![h] = NoChunk]
  /\ UNCHANGED <<nodeVars, hosts, retries, net, served, acked>>

Lose(m) ==
  /\ Fault /\ net' = net \ {m}
  /\ UNCHANGED <<nodeVars, hosts, send, check, arm, retries, served, acked, broken>>

-----------------------------------------------------------------------------
Next ==
  \/ NodeStep \/ CountChunk
  \/ \E h \in Host, t \in Caller : AskFor(t, h)
  \/ \E h \in Host : OnRequest(h) \/ QueueCheck(h) \/ HostDeletes(h) \/ HostRestarts(h)
  \/ \E h \in Host, i \in Chunk :
       TakeChunk(h, i) \/ OnAck(h, i) \/ ActCheckChunkAck(h, i)
  \/ \E h \in Host, i \in 0 .. N : ActSendChunk(h, i)
  \/ \E m \in net : Lose(m)

\* The receive threads run on and every datagram in a socket's buffer has its
\* turn, as has every action in a queue that is due at once.  Checks may come
\* at any time: they are timers.
Fairness ==
  /\ WF_vars(CountChunk) /\ WF_vars(AfterCount /\ UNCHANGED <<host, net>>)
  /\ \A h \in Host :
       /\ WF_vars(OnRequest(h)) /\ WF_vars(QueueCheck(h))
       /\ \A i \in Chunk : WF_vars(OnAck(h, i)) /\ SF_vars(TakeChunk(h, i))
       /\ \A i \in 0 .. N : SF_vars(ActSendChunk(h, i))

Spec == Init /\ [][Next]_vars /\ Fairness

-----------------------------------------------------------------------------
HostsTypeOK ==
  /\ hosts \in [Host -> BOOLEAN]
  /\ send \in [Host -> SUBSET (0 .. N)] /\ check \in [Host -> SUBSET Chunk]
  /\ arm \in [Host -> Chunk \cup {NoChunk}]
  /\ retries \in [Host -> [Chunk -> 0 .. MaxRetries]]
  /\ net \in SUBSET Message
  /\ faults \in 0 .. MaxFaults
  /\ served \in SUBSET Host /\ acked \in SUBSET Host /\ broken \in SUBSET Host

\* An upload that was taken up goes on: an action is queued or about to be,
\* and a chunk that is out is awaited by a check, until the last chunk is
\* acknowledged, a chunk has used up its retries (those of earlier uploads
\* count), the file is gone or a send raised.
Exhausted(h) == \E i \in Chunk : retries[h][i] >= MaxRetries
UploadAlive ==
  \A h \in served \ (acked \cup broken) :
    send[h] # {} \/ check[h] # {} \/ arm[h] # NoChunk \/ Exhausted(h) \/ ~hosts[h]

\* A request that a host has taken up brings the file, if the registry's
\* entry verifies and nothing is lost, deleted, raised or restarted; early
\* checks, repeated chunks and rows of an earlier download do not prevent it.
Delivers ==
  \A h \in Host : h \in served /\ entry = "good" ~> present \/ trouble + faults > 0
=============================================================================
