--------------------------- MODULE TransferProofs ---------------------------
(***************************************************************************)
(* Proofs about transfers, for every set of hosts and callers, every       *)
(* length of the file, every retry limit and any number of calls, crashes, *)
(* deletions and faults: first the receiving side alone, module Download,  *)
(* then both sides over the network, module Transfer.                      *)
(***************************************************************************)
EXTENDS Transfer, TLAPS

\* What the receive thread and the callers are in the middle of keeps its shape.
LEMMA RecvShape ==
  ASSUME recv \in RecvState
  PROVE  /\ recv.pc \in {"count", "check"} =>
              recv.host \in Host /\ recv.chunk \in Chunk
         /\ recv.pc \in {"open", "write"} => recv.data \in SUBSET Chunk
  BY DEF RecvState, Idle

LEMMA CallShape ==
  ASSUME NEW c \in CallState
  PROVE  /\ c.pc \in {"wait", "found", "read"} =>
              c \in [pc : {"wait", "found", "read"}, host : Host, entry : {"good", "bad"}]
         /\ c.pc \in {"open", "write", "done"} =>
              c \in [pc : {"open", "write", "done"}, data : SUBSET Chunk]
  BY DEF CallState

\* Every reachable state has the shape TypeOK gives it.
THEOREM TypeCorrect == NodeSafety => []TypeOK
<1> USE DownloadAssumption DEF DownloadAssumption
<1>1. NodeInit => TypeOK
  <2>1. Idle \in RecvState /\ Idle \in CallState
    BY DEF RecvState, CallState, Idle
  <2>2. 0 \in 0 .. MaxCalls /\ 0 \in 0 .. MaxTrouble
    OBVIOUS
  <2> HIDE DownloadAssumption
  <2> QED BY <2>1, <2>2 DEF NodeInit, TypeOK
<1>2. TypeOK /\ [NodeNext]_nodeVars => TypeOK'
  <2> SUFFICES ASSUME TypeOK, [NodeNext]_nodeVars PROVE TypeOK'
    OBVIOUS
  <2> USE DEF disk
  <2>1. CASE Delete \/ Evict
    <3>1. trouble' \in 0 .. MaxTrouble
      BY <2>1 DEF TypeOK, Delete, Evict, Trouble
    <3> QED BY <2>1, <3>1 DEF TypeOK, Delete, Evict, Remove
  <2>2. CASE Crash
    BY <2>2 DEF TypeOK, Crash, Trouble, RecvState, CallState, Idle
  <2>3. ASSUME NEW h \in Host, NEW i \in Chunk, Take(h, i) PROVE TypeOK'
    <3>1. recv' \in RecvState
      BY <2>3 DEF Take, RecvState
    <3> QED BY <2>3, <3>1 DEF TypeOK, Take
  <2>4. CASE Count \/ CountFails
    <3>1. recv.host \in Host /\ recv.chunk \in Chunk
      BY <2>4, RecvShape DEF TypeOK, Count, CountFails, Progress
    <3>2. recv' \in RecvState
      BY <2>4, <3>1 DEF Count, CountFails, RecvState
    <3>3. got' \in [Host -> SUBSET Chunk] /\ total' \in [Host -> {0, N}]
      BY <2>4, <3>1 DEF TypeOK, Count, CountFails, Progress
    <3>4. trouble' \in 0 .. MaxTrouble
      BY <2>4 DEF TypeOK, Count, CountFails, Trouble
    <3> QED BY <2>4, <3>2, <3>3, <3>4 DEF TypeOK, Count, CountFails, Progress
  <2>5. CASE NotNow \/ AssembleFails
    BY <2>5 DEF TypeOK, NotNow, AssembleFails, RecvState
  <2>6. CASE Assemble
    <3>1. Assembled(recv.host) \in SUBSET Chunk
      BY <2>6, RecvShape DEF TypeOK, Assemble, Assembled, Chunk
    <3>2. recv' \in RecvState
      BY <2>6, <3>1 DEF Assemble, RecvState
    <3> QED BY <2>6, <3>2 DEF TypeOK, Assemble
  <2>7. CASE OpenTemporary
    <3>1. recv' \in RecvState
      BY <2>7, RecvShape DEF TypeOK, OpenTemporary, RecvState
    <3> QED BY <2>7, <3>1 DEF TypeOK, OpenTemporary, Open
  <2>8. CASE WriteTemporary
    <3>1. recv.data \in SUBSET Chunk
      BY <2>8, RecvShape DEF TypeOK, WriteTemporary
    <3> QED BY <2>8, <3>1 DEF TypeOK, WriteTemporary, Write, RecvState
  <2>9. ASSUME NEW t \in Caller, NEW h \in Host, Begin(t, h) PROVE TypeOK'
    <3>1. [pc |-> "wait", host |-> h, entry |-> entry] \in CallState
      BY <2>9 DEF TypeOK, Begin, CallState
    <3>2. call' \in [Caller -> CallState]
      BY <2>9, <3>1 DEF TypeOK, Begin
    <3> QED BY <2>9, <3>2 DEF TypeOK, Begin
  <2>10. ASSUME NEW t \in Caller, Found(t) \/ TimesOut(t) \/ Look(t) \/ Read(t)
         PROVE  TypeOK'
    <3>1. call[t] \in CallState
      BY DEF TypeOK
    <3>2. call' \in [Caller -> CallState]
      <4>1. \A pc \in {"timeout", "missing", "invalid"} :
              End(t, pc) => call' \in [Caller -> CallState]
        BY DEF TypeOK, End, CallState
      <4>2. \A pc \in {"found", "read"} :
              call[t].pc \in {"wait", "found", "read"} /\ Goto(t, pc)
                => call' \in [Caller -> CallState]
        <5> SUFFICES ASSUME NEW pc \in {"found", "read"},
                            call[t].pc \in {"wait", "found", "read"}, Goto(t, pc)
                     PROVE  call' \in [Caller -> CallState]
          OBVIOUS
        <5>1. call[t] \in [pc : {"wait", "found", "read"}, host : Host, entry : {"good", "bad"}]
          BY <3>1, CallShape
        <5>2. [call[t] EXCEPT !.pc = pc] \in CallState
          BY <5>1 DEF CallState
        <5> QED BY <5>2 DEF TypeOK, Goto
      <4>3. \A pc \in {"open", "done"} :
              [pc |-> pc, data |-> content] \in CallState
        BY DEF TypeOK, CallState
      <4>4. CASE Found(t)
        BY <4>2, <4>4 DEF Found, At
      <4>5. CASE TimesOut(t)
        BY <4>1, <4>5 DEF TimesOut
      <4>6. CASE Look(t)
        BY <4>1, <4>2, <4>6 DEF Look, At
      <4>7. CASE Read(t)
        BY <4>1, <4>3, <4>7 DEF TypeOK, Read
      <4> QED BY <2>10, <4>4, <4>5, <4>6, <4>7
    <3> QED BY <2>10, <3>2 DEF TypeOK, Found, TimesOut, Look, Read, CallUnchanged
  <2>11. CASE OpenReplica \/ WriteReplica
    <3>1. call[Sched] \in [pc : {"open", "write", "done"}, data : SUBSET Chunk]
      BY <2>11, CallShape DEF TypeOK, OpenReplica, WriteReplica, At
    <3>2. \A pc \in {"write", "done"} : [call[Sched] EXCEPT !.pc = pc] \in CallState
      BY <3>1 DEF CallState
    <3>3. call' \in [Caller -> CallState]
      BY <2>11, <3>2 DEF TypeOK, OpenReplica, WriteReplica, Goto
    <3>4. call[Sched].data \in SUBSET Chunk
      BY <3>1
    <3> QED BY <2>11, <3>3, <3>4
            DEF TypeOK, OpenReplica, WriteReplica, Open, Write, CallUnchanged
  <2>12. CASE UNCHANGED nodeVars
    BY <2>12 DEF TypeOK, nodeVars
  <2> QED BY <2>1, <2>2, <2>3, <2>4, <2>5, <2>6, <2>7, <2>8, <2>9, <2>10, <2>11, <2>12
          DEF NodeNext, AfterCount, CallerStep
<1> QED BY <1>1, <1>2, PTL DEF NodeSafety

\* What a thread is about to write is the whole file, whatever rows and chunk
\* files were left by earlier transfers; then the file is whole unless it is
\* open, or was when the node crashed.
WriteWhole ==
  /\ recv.pc \in {"open", "write"} => recv.data = Chunk
  /\ \A t \in Caller : call[t].pc \in {"open", "write", "done"} => call[t].data = Chunk

LEMMA WholeInductive ==
  ASSUME TypeOK, WriteWhole, StoredIsWhole, [NodeNext]_nodeVars
  PROVE  WriteWhole' /\ StoredIsWhole'
<1> USE DownloadAssumption DEF disk, WriteWhole, StoredIsWhole
<1>1. CASE Delete \/ Evict \/ Crash
  <2>1. CASE Delete \/ Evict
    BY <2>1 DEF Delete, Evict, Remove
  <2>2. CASE Crash
    <3>1. WriteWhole'
      BY <2>2 DEF Crash, Idle
    <3>2. present /\ ~torn => content = Chunk \/ writer # {}
      OBVIOUS
    <3>3. UNCHANGED <<present, content>> /\ (torn' <=> torn \/ writer # {})
      BY <2>2 DEF Crash
    <3> QED BY <3>1, <3>2, <3>3
  <2> QED BY <1>1, <2>1, <2>2
<1>2. ASSUME NEW h \in Host, NEW i \in Chunk, Take(h, i) PROVE WriteWhole' /\ StoredIsWhole'
  BY <1>2 DEF Take
<1>3. CASE Count \/ CountFails \/ NotNow \/ AssembleFails
  BY <1>3 DEF Count, CountFails, Progress, NotNow, AssembleFails, Idle
<1>4. CASE Assemble
  <2>1. Assembled(recv.host) = Chunk
    <3>1. recv.host \in Host
      BY <1>4, RecvShape DEF TypeOK, Assemble
    <3>2. total[recv.host] = N
      BY <1>4, <3>1 DEF TypeOK, Assemble, Complete
    <3> QED BY <3>2 DEF Assembled, Chunk
  <2> QED BY <1>4, <2>1 DEF Assemble, Idle
<1>5. CASE OpenTemporary \/ WriteTemporary
  BY <1>5 DEF OpenTemporary, WriteTemporary, Open, Write, Idle, TypeOK
<1>6. ASSUME NEW t \in Caller, NEW h \in Host, Begin(t, h) PROVE WriteWhole' /\ StoredIsWhole'
  BY <1>6 DEF Begin, TypeOK
<1>7. ASSUME NEW t \in Caller, Found(t) \/ TimesOut(t) \/ Look(t) \/ Read(t)
      PROVE  WriteWhole' /\ StoredIsWhole'
  <2>1. UNCHANGED <<recv, present, content, writer, torn>>
    BY <1>7 DEF Found, TimesOut, Look, Read, CallUnchanged
  <2>2. \A u \in Caller \ {t} : call'[u] = call[u]
    BY <1>7 DEF TypeOK, Found, TimesOut, Look, Read, Goto, End
  <2>3. call'[t].pc \in {"open", "write", "done"} => call'[t].data = Chunk
    <3>1. \A pc \in {"timeout", "missing", "invalid"} : End(t, pc) => call'[t].pc = pc
      BY DEF TypeOK, End
    <3>2. ASSUME NEW pc \in {"found", "read"}, Goto(t, pc), At(t, "wait") \/ At(t, "found")
          PROVE  call'[t].pc = pc
      <4>1. call[t] \in [pc : {"wait", "found", "read"}, host : Host, entry : {"good", "bad"}]
        BY <3>2, CallShape DEF TypeOK, At
      <4> QED BY <3>2, <4>1 DEF TypeOK, Goto
    <3> QED BY <1>7, <3>1, <3>2 DEF TypeOK, Found, TimesOut, Look, Read, Verifies
  <2> QED BY <2>1, <2>2, <2>3
<1>8. CASE OpenReplica \/ WriteReplica
  <2>1. call[Sched] \in [pc : {"open", "write", "done"}, data : SUBSET Chunk]
    BY <1>8, CallShape DEF TypeOK, OpenReplica, WriteReplica, At
  <2>2. call'[Sched].data = Chunk /\ \A u \in Caller \ {Sched} : call'[u] = call[u]
    BY <1>8, <2>1 DEF TypeOK, OpenReplica, WriteReplica, Goto, At
  <2> QED BY <1>8, <2>1, <2>2 DEF OpenReplica, WriteReplica, Open, Write, CallUnchanged, At
<1>9. CASE UNCHANGED nodeVars
  BY <1>9 DEF nodeVars
<1> QED BY <1>1, <1>2, <1>3, <1>4, <1>5, <1>6, <1>7, <1>8, <1>9
        DEF NodeNext, AfterCount, CallerStep

\* A file on disk is whole unless it is being written, or was in a crash.
THEOREM StoredIsWholeHolds == NodeSafety => []StoredIsWhole
<1>1. NodeInit => WriteWhole /\ StoredIsWhole
  BY DEF NodeInit, WriteWhole, StoredIsWhole, Idle
<1> QED BY <1>1, TypeCorrect, WholeInductive, PTL DEF NodeSafety

\* No call returns anything but the whole file.
THEOREM ReturnedIsWholeHolds == NodeSafety => []ReturnedIsWhole
<1>1. NodeInit => WriteWhole /\ StoredIsWhole
  BY DEF NodeInit, WriteWhole, StoredIsWhole, Idle
<1>2. WriteWhole => ReturnedIsWhole
  BY DEF WriteWhole, ReturnedIsWhole, At
<1> QED BY <1>1, <1>2, TypeCorrect, WholeInductive, PTL DEF NodeSafety

\* A chunk that is about to be counted has been stored, if no chunk file was
\* ever removed.
CountsStored ==
  ~spent => /\ recv.pc = "count" => recv.chunk \in kept
            /\ \A h \in Host : got[h] \subseteq kept

LEMMA CountsStoredInductive ==
  ASSUME TypeOK, CountsStored, [NodeNext]_nodeVars
  PROVE  CountsStored'
<1> USE DEF CountsStored
<1>1. CASE Delete \/ Evict \/ Crash
  BY <1>1 DEF Delete, Evict, Crash, Idle
<1>2. ASSUME NEW h \in Host, NEW i \in Chunk, Take(h, i) PROVE CountsStored'
  BY <1>2 DEF Take
<1>3. CASE Count \/ CountFails
  <2>1. recv.host \in Host /\ recv'.pc # "count"
    BY <1>3, RecvShape DEF TypeOK, Count, CountFails, Progress, Idle
  <2>2. \A h \in Host : got'[h] \subseteq got[h] \cup {recv.chunk}
    BY <1>3, <2>1 DEF TypeOK, Count, CountFails, Progress
  <2> QED BY <1>3, <2>1, <2>2 DEF Count, CountFails, Progress
<1>4. CASE AfterCount
  BY <1>4 DEF AfterCount, NotNow, AssembleFails, Assemble, OpenTemporary,
              WriteTemporary, Idle
<1>5. ASSUME NEW t \in Caller, CallerStep(t) \/ \E h \in Host : Begin(t, h)
      PROVE  CountsStored'
  BY <1>5 DEF CallerStep, Begin, Found, TimesOut, Look, Read, OpenReplica,
              WriteReplica, CallUnchanged
<1>6. CASE UNCHANGED nodeVars
  BY <1>6 DEF nodeVars
<1> QED BY <1>1, <1>2, <1>3, <1>4, <1>5, <1>6 DEF NodeNext

\* Until chunk files are removed, the chunks that are counted are there.
THEOREM CountedIsKeptHolds == NodeSafety => []CountedIsKept
<1>1. NodeInit => CountsStored
  BY DEF NodeInit, CountsStored, Idle
<1>2. CountsStored => CountedIsKept
  BY DEF CountsStored, CountedIsKept
<1> QED BY <1>1, <1>2, TypeCorrect, CountsStoredInductive, PTL DEF NodeSafety

-----------------------------------------------------------------------------
(* Both sides *)

\* Every step of the transfer is a step of Download at the node, or leaves
\* the node alone: what is proved of Download holds with real hosts.
LEMMA NodeImplemented ==
  /\ Init => NodeInit
  /\ [Next]_vars => [NodeNext]_nodeVars
<1>1. Init => NodeInit
  BY DEF Init
<1>2. ASSUME [Next]_vars PROVE [NodeNext]_nodeVars
  <2>1. ASSUME NEW h \in Host, NEW t \in Caller, AskFor(t, h) PROVE NodeNext
    BY <2>1 DEF AskFor, NodeNext
  <2>2. ASSUME NEW h \in Host, NEW i \in Chunk, TakeChunk(h, i) PROVE NodeNext
    BY <2>2 DEF TakeChunk, NodeNext
  <2>3. CASE NodeStep \/ CountChunk
    BY <2>3 DEF NodeStep, CountChunk, NodeNext
  <2>4. ASSUME NEW h \in Host, OnRequest(h) \/ QueueCheck(h) \/ HostDeletes(h) \/ HostRestarts(h)
        PROVE  UNCHANGED nodeVars
    BY <2>4 DEF OnRequest, QueueCheck, HostDeletes, HostRestarts
  <2>5. ASSUME NEW h \in Host, NEW i \in 0 .. N,
               OnAck(h, i) \/ ActCheckChunkAck(h, i) \/ ActSendChunk(h, i)
        PROVE  UNCHANGED nodeVars
    BY <2>5 DEF OnAck, ActCheckChunkAck, ActSendChunk
  <2>6. ASSUME NEW m \in net, Lose(m) PROVE UNCHANGED nodeVars
    BY <2>6 DEF Lose
  <2>7. CASE UNCHANGED vars
    BY <2>7 DEF vars
  <2>8. Chunk \subseteq 0 .. N
    BY DownloadAssumption DEF Chunk
  <2> QED BY <1>2, <2>1, <2>2, <2>3, <2>4, <2>5, <2>6, <2>7, <2>8 DEF Next
<1> QED BY <1>1, <1>2

\* The transfer implements the receiving side that Download specifies.
THEOREM ImplementsDownload == Spec => NodeSafety
  BY NodeImplemented, PTL DEF Spec, NodeSafety

\* With real hosts too, a file on the node's disk is whole unless it is being
\* written, or was in a crash, and a call returns nothing but the whole file.
THEOREM WholeWithHosts == Spec => [](StoredIsWhole /\ ReturnedIsWhole)
  BY ImplementsDownload, StoredIsWholeHolds, ReturnedIsWholeHolds, PTL

-----------------------------------------------------------------------------
LEMMA HostsTypeInductive ==
  ASSUME TypeOK, HostsTypeOK, [Next]_vars
  PROVE  HostsTypeOK'
<1> USE DownloadAssumption, TransferAssumption DEF host
<1>0. 0 \in 0 .. N /\ \A i \in Chunk : i \in 0 .. N /\ i + 1 \in 0 .. N
  BY DEF Chunk
<1>1. ASSUME Fault PROVE faults' \in 0 .. MaxFaults
  BY <1>1 DEF Fault, HostsTypeOK
<1>2. \A h \in Host, i \in Chunk : ChunkMsg(h, i) \in Message /\ AckMsg(h, i) \in Message
  BY DEF ChunkMsg, AckMsg, Message
<1>3. ASSUME NEW h \in Host, NEW t \in Caller, AskFor(t, h) PROVE HostsTypeOK'
  <2>1. Request(h) \in Message
    BY DEF Request, Message
  <2> QED BY <1>3, <2>1 DEF HostsTypeOK, AskFor
<1>4. ASSUME NEW h \in Host, NEW i \in Chunk, TakeChunk(h, i) PROVE HostsTypeOK'
  BY <1>4 DEF HostsTypeOK, TakeChunk
<1>5. CASE CountChunk
  <2>1. AckMsg(recv.host, recv.chunk) \in Message
    BY <1>2, <1>5, RecvShape DEF TypeOK, CountChunk, Count, Progress
  <2> QED BY <1>5, <2>1 DEF HostsTypeOK, CountChunk
<1>6. CASE NodeStep
  BY <1>6 DEF HostsTypeOK, NodeStep
<1>7. ASSUME NEW h \in Host, OnRequest(h) PROVE HostsTypeOK'
  BY <1>0, <1>7 DEF HostsTypeOK, OnRequest
<1>8. ASSUME NEW h \in Host, NEW i \in Chunk, OnAck(h, i) PROVE HostsTypeOK'
  BY <1>0, <1>8 DEF HostsTypeOK, OnAck
<1>9. ASSUME NEW h \in Host, NEW i \in Chunk, SendChunk(h, i)
      PROVE  /\ net' \in SUBSET Message /\ arm' \in [Host -> Chunk \cup {NoChunk}]
             /\ broken' \in SUBSET Host /\ faults' \in 0 .. MaxFaults
  BY <1>1, <1>2, <1>9 DEF HostsTypeOK, SendChunk
<1>10. ASSUME NEW h \in Host, NEW i \in 0 .. N, ActSendChunk(h, i) PROVE HostsTypeOK'
  <2>1. i < N => i \in Chunk
    BY DEF Chunk
  <2>2. /\ net' \in SUBSET Message /\ arm' \in [Host -> Chunk \cup {NoChunk}]
        /\ broken' \in SUBSET Host /\ faults' \in 0 .. MaxFaults
    BY <1>9, <1>10, <2>1 DEF HostsTypeOK, ActSendChunk
  <2> QED BY <1>10, <2>2 DEF HostsTypeOK, ActSendChunk
<1>11. ASSUME NEW h \in Host, NEW i \in Chunk, ActCheckChunkAck(h, i) PROVE HostsTypeOK'
  <2>1. /\ net' \in SUBSET Message /\ arm' \in [Host -> Chunk \cup {NoChunk}]
        /\ broken' \in SUBSET Host /\ faults' \in 0 .. MaxFaults
    BY <1>9, <1>11 DEF HostsTypeOK, ActCheckChunkAck
  <2>2. retries' \in [Host -> [Chunk -> 0 .. MaxRetries]]
    BY <1>11 DEF HostsTypeOK, ActCheckChunkAck
  <2> QED BY <1>11, <2>1, <2>2 DEF HostsTypeOK, ActCheckChunkAck
<1>12. ASSUME NEW h \in Host, QueueCheck(h) PROVE HostsTypeOK'
  BY <1>12 DEF HostsTypeOK, QueueCheck
<1>13. ASSUME NEW h \in Host, HostDeletes(h) \/ HostRestarts(h) PROVE HostsTypeOK'
  BY <1>1, <1>13 DEF HostsTypeOK, HostDeletes, HostRestarts
<1>14. ASSUME NEW m \in net, Lose(m) PROVE HostsTypeOK'
  BY <1>1, <1>14 DEF HostsTypeOK, Lose
<1>15. CASE UNCHANGED vars
  BY <1>15 DEF HostsTypeOK, vars
<1> QED BY <1>3, <1>4, <1>5, <1>6, <1>7, <1>8, <1>10, <1>11, <1>12, <1>13, <1>14, <1>15
        DEF Next

\* The hosts' state and the network keep their shape; no chunk is counted
\* with more retries than the limit.
THEOREM HostsTypeCorrect == Spec => []HostsTypeOK
<1>1. Init => HostsTypeOK
  <2>1. 0 \in 0 .. MaxFaults /\ 0 \in 0 .. MaxRetries
    BY TransferAssumption
  <2> QED BY <2>1 DEF Init, HostsTypeOK
<1> QED BY <1>1, HostsTypeInductive, ImplementsDownload, TypeCorrect, PTL DEF Spec

-----------------------------------------------------------------------------
\* What keeps an upload going.  An action for a chunk past the last one does
\* not, and need not: it is there only when the last chunk was acknowledged,
\* and a new request queues the first chunk again.
Goes(h) ==
  \/ \E i \in Chunk : i \in send[h]
  \/ check[h] # {} \/ arm[h] # NoChunk \/ Exhausted(h) \/ ~hosts[h]
AllGo == \A h \in served \ (acked \cup broken) : Goes(h)

LEMMA AllGoInductive ==
  ASSUME HostsTypeOK, AllGo, [Next]_vars
  PROVE  AllGo'
<1> USE DownloadAssumption, TransferAssumption DEF host
<1>1. ASSUME UNCHANGED <<hosts, send, check, arm, retries, served, acked, broken>>
      PROVE  AllGo'
  BY <1>1 DEF AllGo, Goes, Exhausted
<1>2. ASSUME NEW h \in Host,
             \A k \in Host \ {h} : /\ send'[k] = send[k] /\ check'[k] = check[k]
                                   /\ arm'[k] = arm[k] /\ retries'[k] = retries[k]
                                   /\ hosts'[k] = hosts[k],
             served' \subseteq served \cup {h},
             acked \subseteq acked' \cup {h}, broken \subseteq broken',
             h \in served' \ (acked' \cup broken') => Goes(h)'
      PROVE  AllGo'
  <2> SUFFICES ASSUME NEW k \in served' \ (acked' \cup broken'), k # h PROVE Goes(k)'
    BY <1>2 DEF AllGo
  <2>1. k \in served \ (acked \cup broken) /\ k \in Host \ {h}
    BY <1>2 DEF HostsTypeOK
  <2> QED BY <1>2, <2>1 DEF AllGo, Goes, Exhausted
<1>3. ASSUME NEW h \in Host, OnRequest(h) PROVE AllGo'
  <2>1. CASE hosts[h]
    <3>1. 0 \in Chunk /\ 0 \in send'[h]
      BY <1>3, <2>1 DEF HostsTypeOK, OnRequest, Chunk
    <3>2. Goes(h)'
      BY <3>1 DEF Goes, Chunk
    <3> QED BY <1>2, <1>3, <2>1, <3>2 DEF HostsTypeOK, OnRequest
  <2>2. CASE ~hosts[h]
    BY <1>1, <1>3, <2>2 DEF OnRequest
  <2> QED BY <2>1, <2>2
<1>4. ASSUME NEW h \in Host, NEW i \in Chunk, OnAck(h, i) PROVE AllGo'
  <2>1. ASSUME i # N - 1 PROVE Goes(h)'
    <3>1. i + 1 \in Chunk /\ i + 1 \in send'[h]
      BY <1>4, <2>1 DEF HostsTypeOK, OnAck, Chunk
    <3> QED BY <3>1 DEF Goes, Chunk
  <2>2. i = N - 1 => h \in acked'
    BY <1>4 DEF OnAck
  <2> QED BY <1>2, <1>4, <2>1, <2>2 DEF HostsTypeOK, OnAck
<1>5. ASSUME NEW h \in Host, NEW i \in Chunk, SendChunk(h, i)
      PROVE  /\ arm'[h] # NoChunk \/ h \in broken'
             /\ broken \subseteq broken' /\ \A k \in Host \ {h} : arm'[k] = arm[k]
  BY <1>5 DEF HostsTypeOK, SendChunk, Chunk, NoChunk
<1>6. ASSUME NEW h \in Host, NEW i \in 0 .. N, ActSendChunk(h, i) PROVE AllGo'
  <2>1. CASE hosts[h] /\ i < N
    <3>1. i \in Chunk /\ SendChunk(h, i)
      BY <1>6, <2>1 DEF ActSendChunk, Chunk
    <3>2. h \in served' \ (acked' \cup broken') => Goes(h)'
      BY <1>5, <3>1 DEF Goes
    <3> QED BY <1>2, <1>5, <1>6, <3>1, <3>2 DEF HostsTypeOK, ActSendChunk
  <2>2. CASE ~(hosts[h] /\ i < N)
    <3>1. UNCHANGED <<hosts, check, arm, retries, served, acked, broken>>
      BY <1>6, <2>2 DEF ActSendChunk
    <3>2. hosts[h] => i \notin Chunk
      BY <2>2 DEF Chunk
    <3>3. send'[h] = send[h] \ {i} /\ \A k \in Host \ {h} : send'[k] = send[k]
      BY <1>6 DEF HostsTypeOK, ActSendChunk
    <3>4. h \in served \ (acked \cup broken) => Goes(h)
      BY DEF AllGo
    <3>5. Goes(h) => Goes(h)'
      BY <3>1, <3>2, <3>3 DEF Goes, Exhausted, Chunk
    <3> QED BY <1>2, <3>1, <3>3, <3>4, <3>5
  <2> QED BY <2>1, <2>2
<1>7. ASSUME NEW h \in Host, NEW i \in Chunk, ActCheckChunkAck(h, i) PROVE AllGo'
  <2>1. CASE retries[h][i] + 1 < MaxRetries /\ hosts[h]
    <3>1. SendChunk(h, i)
      BY <1>7, <2>1 DEF ActCheckChunkAck
    <3>2. h \in served' \ (acked' \cup broken') => Goes(h)'
      BY <1>5, <3>1 DEF Goes
    <3> QED BY <1>2, <1>5, <1>7, <3>1, <3>2 DEF HostsTypeOK, ActCheckChunkAck
  <2>2. CASE ~(retries[h][i] + 1 < MaxRetries /\ hosts[h])
    <3>1. UNCHANGED <<hosts, send, arm, served, acked, broken>>
      BY <1>7, <2>2 DEF ActCheckChunkAck
    <3>2. hosts[h] => retries'[h][i] >= MaxRetries
      <4>1. retries[h][i] \in 0 .. MaxRetries
        BY DEF HostsTypeOK
      <4>2. retries'[h][i] = IF retries[h][i] < MaxRetries THEN retries[h][i] + 1
                                                           ELSE retries[h][i]
        BY <1>7 DEF HostsTypeOK, ActCheckChunkAck
      <4> QED BY <2>2, <4>1, <4>2
    <3>3. Goes(h)'
      BY <3>1, <3>2 DEF Goes, Exhausted, Chunk
    <3> QED BY <1>2, <1>7, <3>1, <3>3 DEF HostsTypeOK, ActCheckChunkAck
  <2> QED BY <2>1, <2>2
<1>8. ASSUME NEW h \in Host, QueueCheck(h) PROVE AllGo'
  <2>1. arm[h] \in check'[h]
    BY <1>8 DEF HostsTypeOK, QueueCheck
  <2>2. Goes(h)'
    BY <2>1 DEF Goes
  <2> QED BY <1>2, <1>8, <2>2 DEF HostsTypeOK, QueueCheck
<1>9. ASSUME NEW h \in Host, HostDeletes(h) PROVE AllGo'
  <2>1. Goes(h)'
    BY <1>9 DEF HostsTypeOK, HostDeletes, Goes
  <2> QED BY <1>2, <1>9, <2>1 DEF HostsTypeOK, HostDeletes
<1>10. ASSUME NEW h \in Host, HostRestarts(h) PROVE AllGo'
  BY <1>2, <1>10 DEF HostsTypeOK, HostRestarts
<1>11. CASE NodeStep \/ CountChunk
  BY <1>1, <1>11 DEF NodeStep, CountChunk
<1>12. ASSUME NEW h \in Host, NEW t \in Caller, NEW i \in Chunk, AskFor(t, h) \/ TakeChunk(h, i)
       PROVE  AllGo'
  BY <1>1, <1>12 DEF AskFor, TakeChunk
<1>13. ASSUME NEW m \in net, Lose(m) PROVE AllGo'
  BY <1>1, <1>13 DEF Lose
<1>14. CASE UNCHANGED vars
  BY <1>1, <1>14 DEF vars
<1>15. 0 \in Chunk
  BY DEF Chunk
<1> QED BY <1>3, <1>4, <1>6, <1>7, <1>8, <1>9, <1>10, <1>11, <1>12, <1>13, <1>14, <1>15
        DEF Next

\* No interleaving of requests, ACKs, checks and sends leaves an upload that
\* is not over without anything that would carry it on.
THEOREM UploadAliveHolds == Spec => []UploadAlive
<1>1. Init => AllGo
  BY DEF Init, AllGo
<1>2. AllGo => UploadAlive
  BY DEF AllGo, Goes, UploadAlive
<1> QED BY <1>1, <1>2, HostsTypeCorrect, AllGoInductive, PTL DEF Spec
=============================================================================
