------------------------------ MODULE Download ------------------------------
(***************************************************************************)
(* The receiving side of a file transfer (src/Server/app.py, the transfer  *)
(* tables of file_registry.py, the chunk files of storage.py), for one     *)
(* file at one node.  The receive thread stores chunks and assembles them, *)
(* while threads that called download_file poll the tables and read the    *)
(* file.  What arrives is only assumed to come from a host that was asked: *)
(* chunks may be missing, late, repeated and in any order.                 *)
(***************************************************************************)
EXTENDS Integers, FiniteSets

CONSTANTS Host,        \* nodes that may host the file
          Caller,      \* threads that call download_file
          Sched,       \* the one among them that runs the scheduler's actions
          N,           \* chunks of the file; an empty file has no transfer
          MaxCalls,    \* bound: calls of download_file
          MaxTrouble   \* bound: errors, deletions and crashes

ASSUME DownloadAssumption ==
  /\ Sched \in Caller /\ "recv" \notin Caller
  /\ N \in Nat \ {0} /\ MaxCalls \in Nat /\ MaxTrouble \in Nat

VARIABLES
  total,    \* transfers: total_chunks of the row "dl:<file>:<host>"; its state is
            \* written and never read
  got,      \* transfer_chunks: the chunks counted as received for that row
  kept,     \* the files under .chunks/<file>
  present,  \* has_file
  content,  \* the chunks that make up the file on disk
  writer,   \* who has the file open for writing, if it is still that file
  entry,    \* the registry's entry: none, or whether the id verifies with it
  recv,     \* where the receive thread is in _on_file_chunk
  call,     \* where each caller is in download_file
  asked,    \* hosts that were sent a FILE_REQUEST
  calls, trouble,  \* history: counters for the two bounds
  spent,    \* history: chunk files were assembled and removed
  torn      \* history: a crash has hit a thread that was writing the file

disk == <<present, content, writer>>
nodeVars == <<total, got, kept, present, content, writer, entry, recv, call, asked,
              calls, trouble, spent, torn>>

Chunk == 0 .. N - 1
Idle == [pc |-> "idle"]
RecvState == {Idle} \cup [pc : {"count", "check"}, host : Host, chunk : Chunk]
                    \cup [pc : {"open", "write"}, data : SUBSET Chunk]
CallState == [pc : {"idle", "timeout", "missing", "invalid"}]
             \cup [pc : {"wait", "found", "read"}, host : Host, entry : {"good", "bad"}]
             \cup [pc : {"open", "write", "done"}, data : SUBSET Chunk]

NodeInit ==
  /\ total = [h \in Host |-> 0]
  /\ got = [h \in Host |-> {}]
  /\ kept = {}
  /\ present = FALSE /\ content = {} /\ writer = {}
  /\ entry \in {"good", "bad"}
  /\ recv = Idle
  /\ call = [t \in Caller |-> Idle]
  /\ asked = {}
  /\ calls = 0 /\ trouble = 0
  /\ spent = FALSE /\ torn = FALSE

Trouble == trouble < MaxTrouble /\ trouble' = trouble + 1
Complete(h) == total[h] > 0 /\ Cardinality(got[h]) >= total[h]
At(t, pc) == call[t].pc = pc
Busy(t) == call[t].pc \in {"wait", "found", "read", "open", "write"}

-----------------------------------------------------------------------------
(* The file on the node's disk *)

\* open(path, "wb") creates or truncates.  What is written later goes to the
\* file that was opened, which may have been removed in between.
Open(w) == present' = TRUE /\ content' = {} /\ writer' = writer \cup {w}
Write(w, data) ==
  /\ content' = IF w \in writer THEN data ELSE content
  /\ writer' = writer \ {w}
  /\ UNCHANGED present
Remove == present' = FALSE /\ content' = {} /\ writer' = {}

\* FILE_DELETE, or a delete by the user: the entry goes, then the file.
Delete ==
  /\ Trouble /\ entry' = "none" /\ Remove
  /\ UNCHANGED <<total, got, kept, recv, call, asked, calls, spent, torn>>

\* Rebalancing, on the scheduler thread, deletes the file alone.
Evict ==
  /\ Trouble /\ ~Busy(Sched) /\ Remove
  /\ UNCHANGED <<total, got, kept, entry, recv, call, asked, calls, spent, torn>>

\* Mutant: the chunk files are cleared at the start, the tables are not.
CrashClearsChunks ==
  /\ Trouble
  /\ recv' = Idle /\ call' = [t \in Caller |-> Idle] /\ kept' = {}
  /\ writer' = {} /\ torn' = (torn \/ writer # {})
  /\ UNCHANGED <<total, got, present, content, entry, asked, calls, spent>>

\* The node stops at any point and starts again.
Crash ==
  /\ Trouble
  /\ recv' = Idle /\ call' = [t \in Caller |-> Idle]
  /\ writer' = {} /\ torn' = (torn \/ writer # {})
  /\ UNCHANGED <<total, got, kept, present, content, entry, asked, calls, spent>>

-----------------------------------------------------------------------------
(* The receive thread: _on_file_chunk *)

\* store_chunk
Take(h, i) ==
  /\ recv = Idle /\ h \in asked
  /\ kept' = kept \cup {i}
  /\ recv' = [pc |-> "count", host |-> h, chunk |-> i]
  /\ UNCHANGED <<total, got, disk, entry, call, asked, calls, trouble, spent, torn>>

\* Mutant: the next chunk is recorded, as it is for current_chunk.
ProgressNext ==
  /\ recv.pc = "count"
  /\ got' = [got EXCEPT ![recv.host] = @ \cup {recv.chunk + 1}]
  /\ total' = [total EXCEPT ![recv.host] = N]
  /\ UNCHANGED <<kept, disk, entry, call, asked, calls, spent, torn>>

\* update_transfer_progress; then the chunk ACK leaves, or sending it raises
\* and ends the handler.
Progress ==
  /\ recv.pc = "count"
  /\ got' = [got EXCEPT ![recv.host] = @ \cup {recv.chunk}]
  /\ total' = [total EXCEPT ![recv.host] = N]
  /\ UNCHANGED <<kept, disk, entry, call, asked, calls, spent, torn>>
Count ==
  /\ Progress /\ UNCHANGED trouble
  /\ recv' = [pc |-> "check", host |-> recv.host, chunk |-> recv.chunk]
CountFails == Progress /\ Trouble /\ recv' = Idle

\* The chunks are not complete, or the file is already there.
NotNow ==
  /\ recv.pc = "check" /\ (Complete(recv.host) => present)
  /\ recv' = Idle
  /\ UNCHANGED <<total, got, kept, disk, entry, call, asked, calls, trouble, spent, torn>>

\* Mutant: it reads what is in the directory.
AssembledListing(h) == kept

\* assemble_chunks reads the chunks 0 .. total - 1; one of them is not on disk.
Assembled(h) == 0 .. total[h] - 1
AssembleFails ==
  /\ recv.pc = "check" /\ Complete(recv.host) /\ ~present
  /\ ~ Assembled(recv.host) \subseteq kept
  /\ recv' = Idle
  /\ UNCHANGED <<total, got, kept, disk, entry, call, asked, calls, trouble, spent, torn>>

\* It finds them all and removes them; then the integrity check, if the
\* registry has an entry.
Assemble ==
  /\ recv.pc = "check" /\ Complete(recv.host) /\ ~present
  /\ Assembled(recv.host) \subseteq kept
  /\ kept' = {} /\ spent' = TRUE
  /\ recv' = IF entry = "bad" THEN Idle
             ELSE [pc |-> "open", data |-> Assembled(recv.host)]
  /\ UNCHANGED <<total, got, disk, entry, call, asked, calls, trouble, torn>>

\* store_temporary_replica
OpenTemporary ==
  /\ recv.pc = "open"
  /\ Open("recv") /\ recv' = [pc |-> "write", data |-> recv.data]
  /\ UNCHANGED <<total, got, kept, entry, call, asked, calls, trouble, spent, torn>>
WriteTemporary ==
  /\ recv.pc = "write"
  /\ Write("recv", recv.data) /\ recv' = Idle
  /\ UNCHANGED <<total, got, kept, entry, call, asked, calls, trouble, spent, torn>>

-----------------------------------------------------------------------------
(* The callers: download_file *)

Goto(t, pc) == call' = [call EXCEPT ![t].pc = pc]
End(t, pc) == call' = [call EXCEPT ![t] = [pc |-> pc]]

\* create_transfer replaces the row, not the chunks counted under its name.
\* The scheduler's action does nothing when the file is there.
Begin(t, h) ==
  /\ ~Busy(t) /\ calls < MaxCalls /\ entry # "none"
  /\ t = Sched => ~present
  /\ calls' = calls + 1
  /\ total' = [total EXCEPT ![h] = 0]
  /\ asked' = asked \cup {h}
  /\ call' = [call EXCEPT ![t] = [pc |-> "wait", host |-> h, entry |-> entry]]
  /\ UNCHANGED <<got, kept, disk, entry, recv, trouble, spent, torn>>

CallUnchanged == UNCHANGED <<total, got, kept, entry, recv, asked, calls, trouble, spent, torn>>

\* A round of the polling loop that finds the transfer complete.
Found(t) ==
  /\ At(t, "wait") /\ Complete(call[t].host)
  /\ Goto(t, "found") /\ UNCHANGED disk /\ CallUnchanged

\* Mutant: it gives up only on a host that has sent nothing.
TimesOutSilent(t) ==
  /\ At(t, "wait") /\ got[call[t].host] = {}
  /\ End(t, "timeout") /\ UNCHANGED disk /\ CallUnchanged

\* download_timeout has passed, and a last look finds it incomplete.
TimesOut(t) ==
  /\ At(t, "wait") /\ ~Complete(call[t].host)
  /\ End(t, "timeout") /\ UNCHANGED disk /\ CallUnchanged

\* has_file
Look(t) ==
  /\ At(t, "found")
  /\ IF present THEN Goto(t, "read") ELSE End(t, "missing")
  /\ UNCHANGED disk /\ CallUnchanged

\* Mutant: the integrity check is left to the receive thread.
VerifiesEntry(data, e) == e = "good"

\* read_file, and the integrity check against the entry the call began with.
Verifies(data, e) == data = Chunk /\ e = "good"
Read(t) ==
  /\ At(t, "read")
  /\ \/ ~present /\ End(t, "missing")
     \/ present /\ ~Verifies(content, call[t].entry) /\ End(t, "invalid")
     \/ /\ present /\ Verifies(content, call[t].entry)
        /\ call' = [call EXCEPT ![t] = [pc |-> IF t = Sched THEN "open" ELSE "done",
                                        data |-> content]]
  /\ UNCHANGED disk /\ CallUnchanged

\* The scheduler's action makes the file a replica: store_replica
OpenReplica == At(Sched, "open") /\ Open(Sched) /\ Goto(Sched, "write") /\ CallUnchanged
WriteReplica ==
  /\ At(Sched, "write") /\ Write(Sched, call[Sched].data)
  /\ Goto(Sched, "done") /\ CallUnchanged

-----------------------------------------------------------------------------
CallerStep(t) == Found(t) \/ TimesOut(t) \/ Look(t) \/ Read(t)
                 \/ (t = Sched /\ (OpenReplica \/ WriteReplica))
AfterCount == NotNow \/ AssembleFails \/ Assemble \/ OpenTemporary \/ WriteTemporary

NodeNext ==
  \/ Delete \/ Evict \/ Crash
  \/ \E h \in Host, i \in Chunk : Take(h, i)
  \/ Count \/ CountFails \/ AfterCount
  \/ \E t \in Caller : CallerStep(t) \/ \E h \in Host : Begin(t, h)

\* What the node does, whatever arrives.  The transfer with its hosts and the
\* network (Transfer) implements it: one chunk is handled at a time, and only
\* chunks of hosts that were asked arrive.
NodeSafety == NodeInit /\ [][NodeNext]_nodeVars

\* The polling loop has a deadline and the rest of a call does not wait.
NodeSpec == NodeSafety /\ \A t \in Caller : WF_nodeVars(CallerStep(t))

-----------------------------------------------------------------------------
TypeOK ==
  /\ total \in [Host -> {0, N}] /\ got \in [Host -> SUBSET Chunk] /\ kept \in SUBSET Chunk
  /\ present \in BOOLEAN /\ content \in SUBSET Chunk /\ writer \in SUBSET {"recv", Sched}
  /\ entry \in {"none", "good", "bad"}
  /\ recv \in RecvState /\ call \in [Caller -> CallState]
  /\ asked \in SUBSET Host
  /\ calls \in 0 .. MaxCalls /\ trouble \in 0 .. MaxTrouble
  /\ spent \in BOOLEAN /\ torn \in BOOLEAN

\* A file that is there is the whole file, unless a thread has it open for
\* writing, or a crash came while one had: chunk rows that outlive their
\* chunk files, overlapping transfers and late copies never lead to a file
\* with a hole, even where no entry is known to verify it with.
StoredIsWhole == present => content = Chunk \/ writer # {} \/ torn

\* A call returns the whole file or raises, although the receive thread and
\* the scheduler's store_replica truncate the file under its hands.
ReturnedIsWhole == \A t \in Caller : At(t, "done") => call[t].data = Chunk

\* As long as no chunk files have been assembled and removed, every chunk the
\* tables count as received is on disk, also after a crash at any point: a
\* first download never finds a counted chunk missing.
CountedIsKept == ~spent => \A h \in Host : got[h] \subseteq kept

\* Every call ends, and with it the time the scheduler thread is blocked: the
\* deadline also ends a wait for a host that waits for this node in turn.
CallEnds == \A t \in Caller : Busy(t) ~> ~Busy(t)
=============================================================================
