------------------------------ MODULE Storage -------------------------------
(***************************************************************************)
(* One node's StorageManager, src/Server/storage.py, with the three kinds  *)
(* of threads that call it: the receive thread, the scheduler thread and   *)
(* web threads.  A file and the metadata about it are two files on disk,   *)
(* changed in steps: the file first, then, under the lock, the metadata is *)
(* loaded, modified, truncated and written.  Readers of the metadata take  *)
(* no lock.  The process may crash between any two steps.                  *)
(*                                                                         *)
(* A file that is open for writing and still empty is in module Download;  *)
(* here a file is written in one step.                                     *)
(***************************************************************************)
EXTENDS Naturals, FiniteSets

CONSTANTS
  File,
  Own,         \* files that this node's author publishes
  Size,        \* bytes of each file
  Recv, Sched, \* the receive and the scheduler thread
  Web,         \* threads of the web interface
  NoThread, NoFile,
  Quotas,      \* bound: quotas a user may set
  MaxOps,      \* bound: operations begun
  MaxCrashes   \* bound

ASSUME StorageAssumption ==
  /\ Own \subseteq File /\ Size \in [File -> Nat] /\ Quotas \subseteq Nat
  /\ Recv # Sched /\ {Recv, Sched} \cap Web = {} /\ NoThread \notin Web \cup {Recv, Sched}
  /\ NoFile \notin File /\ MaxOps \in Nat /\ MaxCrashes \in Nat

VARIABLES
  disk,      \* the files in files_dir
  meta,      \* the lists in .metadata.json
  readable,  \* whether it holds JSON: not so from truncation to the write
  lock,      \* holder of _lock
  job,       \* what each thread is doing
  quota,     \* total_configured_mb
  accepted,  \* files of queued SOLICIT_REPLICATION actions
  minted,    \* history: own files whose publication has begun
  published, \* history: own files whose store_own_file has returned
  withdrawn, \* history: own files the author has deleted
  stray,     \* history: files whose bookkeeping a crash, an exception or an
             \* overlapping operation on the same file has upset
  crowded,   \* history: a file was accepted while another one was on its way, or
             \* stored without a check and without room
  ops,       \* history: counter for the bound
  crashes    \* history: counter for the bound

vars == <<disk, meta, readable, lock, job, quota, accepted, minted, published,
          withdrawn, stray, crowded, ops, crashes>>

Thread == Web \cup {Recv, Sched}
Kind == {"own", "replica", "temporary"}
Meta == [Kind -> SUBSET File]
NoMeta == [k \in Kind |-> {}]

\* A thread's operation, the file it is about, the step it is at, and what it
\* has read.
Op == {"idle", "own", "replica", "temporary", "settle", "expire", "delete", "evict", "room"}
Pc == {"idle", "lock", "save", "write", "evict", "room", "await", "have"}
Job == [pc : Pc, op : Op, file : File \cup {NoFile}, book : Meta]
Idle == [pc |-> "idle", op |-> "idle", file |-> NoFile, book |-> NoMeta]
At(t, pc) == job[t].pc = pc
Goes(t, pc, op, f) ==
  job' = [job EXCEPT ![t] = [pc |-> pc, op |-> op, file |-> f, book |-> NoMeta]]
Rests(t) == job' = [job EXCEPT ![t] = Idle]

RecordedIn(m) == UNION {m[k] : k \in Kind}
Bytes(S) == UNION {{f} \X (1 .. Size[f]) : f \in S}
Total(S) == Cardinality(Bytes(S))

Init ==
  /\ disk = {} /\ meta = NoMeta /\ readable = TRUE /\ lock = NoThread
  /\ job = [t \in Thread |-> Idle]
  /\ quota \in Quotas
  /\ accepted = {} /\ minted = {} /\ published = {} /\ withdrawn = {}
  /\ stray = {} /\ crowded = FALSE /\ ops = 0 /\ crashes = 0

history == <<minted, published, withdrawn, stray, crowded, ops, crashes>>

\* Thread t takes up an operation.
Begins(t) == At(t, "idle") /\ ops < MaxOps /\ ops' = ops + 1

-----------------------------------------------------------------------------
(* The metadata: what each operation makes of the lists it has loaded *)

With(m, k, f) == [m EXCEPT ![k] = @ \cup {f}]
Without(m, S) == [k \in Kind |-> m[k] \ S]
Settled(m, S) == [m EXCEPT !["temporary"] = @ \ S, !["replica"] = @ \cup S]

\* Mutant: delete_file forgets the temporary replicas.
ModifiedKeepsTemporary(m, op, f, S) ==
  CASE op = "own"       -> With(m, "own", f)
    [] op = "replica"   -> Settled(m, {f})
    [] op = "temporary" -> With(m, "temporary", f)
    [] op = "delete"    -> [m EXCEPT !["own"] = @ \ {f}, !["replica"] = @ \ {f}]
    [] OTHER            -> Settled(m, S)

\* The lists m after the operation; S are the files that one which is about
\* temporary replicas settles.
Modified(m, op, f, S) ==
  CASE op = "own"       -> With(m, "own", f)
    [] op = "replica"   -> Settled(m, {f})
    [] op = "temporary" -> With(m, "temporary", f)
    [] op = "delete"    -> Without(m, {f})
    [] OTHER            -> Settled(m, S)

\* Mutant: without the lock.
LoadUnlocked(t) ==
  /\ At(t, "lock") /\ readable
  /\ \E S \in SUBSET meta["temporary"] :
       /\ job[t].op = "settle" => S = {job[t].file} \cap meta["temporary"]
       /\ IF job[t].op \in {"settle", "expire"} /\ S = {}
            THEN Rests(t) /\ UNCHANGED lock
            ELSE /\ lock' = t
                 /\ job' = [job EXCEPT ![t].pc = "save",
                      ![t].book = Modified(meta, job[t].op, job[t].file, S)]
  /\ UNCHANGED <<disk, meta, readable, quota, accepted, history>>

\* The lock, _load_metadata and the modification.  An expiry takes the files
\* S whose hour has passed; it and a promotion save only if they move a file.
Load(t) ==
  /\ At(t, "lock") /\ lock = NoThread /\ readable
  /\ \E S \in SUBSET meta["temporary"] :
       /\ job[t].op = "settle" => S = {job[t].file} \cap meta["temporary"]
       /\ IF job[t].op \in {"settle", "expire"} /\ S = {}
            THEN Rests(t) /\ UNCHANGED lock
            ELSE /\ lock' = t
                 /\ job' = [job EXCEPT ![t].pc = "save",
                      ![t].book = Modified(meta, job[t].op, job[t].file, S)]
  /\ UNCHANGED <<disk, meta, readable, quota, accepted, history>>

\* An operation that has touched the disk and not yet the metadata.
Unrecorded(t) ==
  /\ job[t].pc \in {"lock", "save", "write"}
  /\ job[t].op \in {"own", "replica", "temporary", "delete"}

\* json.load raises: a crash has left the metadata truncated.
LoadFails(t) ==
  /\ At(t, "lock") /\ lock = NoThread /\ ~readable
  /\ stray' = IF Unrecorded(t) THEN stray \cup {job[t].file} ELSE stray
  /\ Rests(t)
  /\ UNCHANGED <<disk, meta, readable, lock, quota, accepted, minted, published,
                 withdrawn, crowded, ops, crashes>>

\* _save_metadata: open(..., "w") truncates ...
Truncate(t) ==
  /\ At(t, "save")
  /\ readable' = FALSE
  /\ job' = [job EXCEPT ![t].pc = "write"]
  /\ UNCHANGED <<disk, meta, lock, quota, accepted, history>>

\* Mutant: the lock is not released.
WriteHoldsLock(t) ==
  /\ At(t, "write")
  /\ meta' = job[t].book /\ readable' = TRUE /\ UNCHANGED lock
  /\ Rests(t)
  /\ published' = IF job[t].op = "own" THEN published \cup {job[t].file} ELSE published
  /\ UNCHANGED <<disk, quota, accepted, minted, withdrawn, stray, crowded, ops, crashes>>

\* ... and json.dump writes.  The operation returns.
Write(t) ==
  /\ At(t, "write")
  /\ meta' = job[t].book /\ readable' = TRUE /\ lock' = NoThread
  /\ Rests(t)
  /\ published' = IF job[t].op = "own" THEN published \cup {job[t].file} ELSE published
  /\ UNCHANGED <<disk, quota, accepted, minted, withdrawn, stray, crowded, ops, crashes>>

-----------------------------------------------------------------------------
(* Storing and removing a file: the file itself, and the way to the lock *)

\* Another thread is about to record what it has done to f.
Overlaps(t, f) == \E u \in Thread \ {t} : Unrecorded(u) /\ job[u].file = f
Upset(t, f) == IF Overlaps(t, f) THEN stray \cup {f} ELSE stray

StoreFile(t, op, f) ==
  /\ disk' = disk \cup {f} /\ stray' = Upset(t, f)
  /\ Goes(t, "lock", op, f)
  /\ UNCHANGED <<meta, readable, lock, quota>>

\* delete_file
RemoveFile(t, f) ==
  /\ IF f \in disk
       THEN /\ disk' = disk \ {f} /\ stray' = Upset(t, f)
            /\ Goes(t, "lock", "delete", f)
       ELSE Rests(t) /\ UNCHANGED <<disk, stray>>
  /\ UNCHANGED <<meta, readable, lock, quota>>

\* Files whose room is being checked, or was, and stored files that are not yet
\* recorded: a check does not see them.
OnTheirWay ==
  accepted \cup {job[t].file : t \in
    {u \in Thread : job[u].pc \in {"room", "await", "have"} \/ Unrecorded(u)}}

\* A file is stored, or the quota set to q, beside the check.
Beside(S, q) == crowded \/ OnTheirWay # {} \/ Total(disk \cup S) > q

-----------------------------------------------------------------------------
(* Web threads *)

\* publish_file and update_file store under an id that is new.  Nothing checks
\* the quota.
Publish(t, f) ==
  /\ Begins(t) /\ f \in Own \ minted
  /\ StoreFile(t, "own", f)
  /\ minted' = minted \cup {f} /\ crowded' = Beside({f}, quota)
  /\ UNCHANGED <<accepted, published, withdrawn, crashes>>

\* The author's delete_file: of what the registry has, so what was published.
Withdraw(t, f) ==
  /\ Begins(t) /\ f \in published
  /\ RemoveFile(t, f) /\ withdrawn' = withdrawn \cup {f}
  /\ UNCHANGED <<accepted, minted, published, crowded, crashes>>

\* promote_temporary: a tab is closed.
CloseTab(t, f) ==
  /\ Begins(t) /\ Goes(t, "lock", "settle", f)
  /\ UNCHANGED <<disk, meta, readable, lock, quota, accepted, minted, published,
                 withdrawn, stray, crowded, crashes>>

\* set_quota, refused below what the own files take.
SetQuota(t, q) ==
  /\ Begins(t) /\ readable
  /\ q >= Total(meta["own"] \cap disk)
  /\ quota' = q /\ crowded' = Beside({}, q)
  /\ UNCHANGED <<disk, meta, readable, lock, job, accepted, minted, published,
                 withdrawn, stray, crashes>>

\* Files the registry has an entry of: any of other authors, and own ones.
Listed == (File \ Own) \cup published

\* A user's download, from the web page: queued, whatever room there is.
Wish(t, f) ==
  /\ Begins(t) /\ f \in Listed \ disk
  /\ accepted' = accepted \cup {f} /\ crowded' = Beside({f}, quota)
  /\ UNCHANGED <<disk, meta, readable, lock, job, quota, minted, published, withdrawn,
                 stray, crashes>>

-----------------------------------------------------------------------------
(* The receive thread *)

\* The room for f is checked, for a publication or a solicitation: has_file,
\* then used_for_own_files, kept for the next step ...
CheckRoom(f) ==
  /\ Begins(Recv) /\ readable /\ f \in Listed \ disk
  /\ job' = [job EXCEPT ![Recv] =
       [pc |-> "room", op |-> "room", file |-> f,
        book |-> [NoMeta EXCEPT !["own"] = meta["own"] \cap disk]]]
  /\ crowded' = (crowded \/ OnTheirWay # {})
  /\ UNCHANGED <<disk, meta, readable, lock, quota, accepted, minted, published,
                 withdrawn, stray, crashes>>

UsedForReplicas == Total(meta["replica"] \cap disk) + Total(meta["temporary"] \cap disk)
Available(own) ==
  LET used == Total(own) + UsedForReplicas IN IF quota > used THEN quota - used ELSE 0

\* Mutant: temporary replicas are not counted.
HasRoomTemporary(f) ==
  quota >= Total(job[Recv].book["own"]) + Total(meta["replica"] \cap disk) + Size[f]
HasRoom(f) == Available(job[Recv].book["own"]) >= Size[f]

\* ... and used_for_replicas.  An accepted file is queued.
Accept ==
  /\ At(Recv, "room") /\ Rests(Recv)
  /\ LET f == job[Recv].file IN
       IF readable /\ HasRoom(f)
         THEN /\ accepted' = accepted \cup {f}
              /\ crowded' = (crowded \/ OnTheirWay # {f})
         ELSE UNCHANGED <<accepted, crowded>>
  /\ UNCHANGED <<disk, meta, readable, lock, quota, minted, published, withdrawn,
                 stray, ops, crashes>>

\* _on_file_chunk: the last chunk of a file is here, for the scheduler thread or
\* for a user, whose downloads nothing checks.
Complete(f) ==
  /\ Begins(Recv) /\ f \in Listed \ disk
  /\ StoreFile(Recv, "temporary", f)
  /\ crowded' = IF At(Sched, "await") /\ job[Sched].file = f THEN crowded ELSE Beside({f}, quota)
  /\ UNCHANGED <<accepted, minted, published, withdrawn, crashes>>

\* _on_file_delete
OnDelete(f) ==
  /\ Begins(Recv) /\ f \in Listed
  /\ RemoveFile(Recv, f) /\ withdrawn' = withdrawn \cup ({f} \cap Own)
  /\ UNCHANGED <<accepted, minted, published, crowded, crashes>>

-----------------------------------------------------------------------------
(* The scheduler thread *)

\* _act_solicit_replication: a file that is already here is skipped, and
\* download_file waits for any other ...
Solicit(f) ==
  /\ At(Sched, "idle") /\ f \in accepted /\ accepted' = accepted \ {f}
  /\ IF f \in disk THEN UNCHANGED job ELSE Goes(Sched, "await", "idle", f)
  /\ UNCHANGED <<disk, meta, readable, lock, quota, history>>

\* ... until it has read the file, or raises; store_replica writes it again.
Fetch ==
  /\ At(Sched, "await")
  /\ \/ job[Sched].file \in disk /\ Goes(Sched, "have", "idle", job[Sched].file)
     \/ Rests(Sched)
  /\ UNCHANGED <<disk, meta, readable, lock, quota, accepted, history>>
StoreReplica ==
  /\ At(Sched, "have") /\ StoreFile(Sched, "replica", job[Sched].file)
  /\ UNCHANGED <<accepted, minted, published, withdrawn, crowded, ops, crashes>>

\* cleanup_expired_temporary
CleanUpExpired ==
  /\ Begins(Sched) /\ Goes(Sched, "lock", "expire", NoFile)
  /\ UNCHANGED <<disk, meta, readable, lock, quota, accepted, minted, published,
                 withdrawn, stray, crowded, crashes>>

\* Mutant: metadata that cannot be read counts as empty.
SelectLenient(f) ==
  /\ Begins(Sched)
  /\ f \in (Listed \cap disk) \ (IF readable THEN meta["own"] ELSE {})
  /\ Goes(Sched, "evict", "evict", f)
  /\ UNCHANGED <<disk, meta, readable, lock, quota, accepted, minted, published,
                 withdrawn, stray, crowded, crashes>>

\* execute_rebalance, select_files_to_delete: some file that the registry
\* lists, that is here and that the metadata, read without the lock, does not
\* call own.  (A file published after that reading has one replica, which
\* rules it out.)
Select(f) ==
  /\ Begins(Sched) /\ readable
  /\ f \in (Listed \cap disk) \ meta["own"]
  /\ Goes(Sched, "evict", "evict", f)
  /\ UNCHANGED <<disk, meta, readable, lock, quota, accepted, minted, published,
                 withdrawn, stray, crowded, crashes>>
Evict ==
  /\ At(Sched, "evict") /\ RemoveFile(Sched, job[Sched].file)
  /\ UNCHANGED <<accepted, minted, published, withdrawn, crowded, ops, crashes>>

-----------------------------------------------------------------------------
\* The process stops and is started again: files_dir is all that is left.
Crash ==
  /\ crashes < MaxCrashes /\ crashes' = crashes + 1
  /\ job' = [t \in Thread |-> Idle] /\ lock' = NoThread /\ accepted' = {}
  /\ stray' = stray \cup {job[t].file : t \in {u \in Thread : Unrecorded(u)}}
  /\ UNCHANGED <<disk, meta, readable, quota, minted, published, withdrawn, crowded, ops>>

Next ==
  \/ \E t \in Thread : Load(t) \/ LoadFails(t) \/ Truncate(t) \/ Write(t)
  \/ \E t \in Web, f \in File : Publish(t, f) \/ Withdraw(t, f) \/ CloseTab(t, f) \/ Wish(t, f)
  \/ \E t \in Web, q \in Quotas : SetQuota(t, q)
  \/ \E f \in File : CheckRoom(f) \/ Complete(f) \/ OnDelete(f) \/ Solicit(f) \/ Select(f)
  \/ Accept \/ Fetch \/ StoreReplica \/ CleanUpExpired \/ Evict
  \/ Crash

Spec == Init /\ [][Next]_vars

-----------------------------------------------------------------------------
TypeOK ==
  /\ disk \subseteq File /\ meta \in Meta /\ readable \in BOOLEAN
  /\ lock \in Thread \cup {NoThread}
  /\ job \in [Thread -> Job]
  /\ \A t \in Thread : job[t].pc \in {"save", "write"} <=> lock = t
  /\ quota \in Quotas /\ accepted \subseteq File
  /\ withdrawn \subseteq published /\ published \subseteq File /\ minted \subseteq Own
  /\ stray \subseteq File
  /\ crowded \in BOOLEAN /\ ops \in 0 .. MaxOps /\ crashes \in 0 .. MaxCrashes

\* Originator protection: what the author has published and not deleted stays
\* on the disk and on the list of own files, whatever rebalancing selects,
\* whenever the metadata is being rewritten and wherever the process crashes.
OriginatorKeeps == published \ withdrawn \subseteq disk \cap meta["own"]

\* The disk and the metadata tell of the same files, but for those a thread is
\* about to record and those that a crash, an exception or two operations on
\* one file at a time have upset.
Tallies ==
  \A f \in File \ stray :
    (f \in disk <=> f \in RecordedIn(meta)) \/ \E t \in Thread : Unrecorded(t) /\ job[t].file = f

\* The quota is kept while files come one at a time: it takes an unchecked
\* file, a second acceptance before the first file is recorded, a lower quota
\* or upset bookkeeping to exceed it.
QuotaHeld == Total(disk) <= quota \/ crowded \/ stray # {}

\* No update of the metadata is lost or torn: all of them are steps of the
\* ledger, one after the other, and only a crash in the midst of a write
\* loses it.
Promise == INSTANCE Ledger WITH
  kinds <- [f \in File |-> {k \in Kind : f \in meta[k]}],
  lost <- ~readable /\ lock = NoThread
KeepsLedger == Promise!Spec
=============================================================================
