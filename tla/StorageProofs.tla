---------------------------- MODULE StorageProofs ---------------------------
(***************************************************************************)
(* Proofs about the storage manager, for every set of files, every number  *)
(* of web threads, operations and crashes.                                 *)
(***************************************************************************)
EXTENDS Storage, FiniteSetTheorems, TLAPS

-----------------------------------------------------------------------------
(* What the lists are after an operation *)

Modifying == {"own", "replica", "temporary", "settle", "expire", "delete"}

\* The lists stay lists of files; only publishing adds an own file and only
\* deletion takes one away; an operation that stores a file records it, a
\* deletion forgets it, and the others record what was recorded.
LEMMA ModifiedFacts ==
  ASSUME NEW m \in Meta, NEW op \in Modifying, NEW f, NEW S \in SUBSET m["temporary"],
         op # "expire" => f \in File
  PROVE  /\ Modified(m, op, f, S) \in Meta
         /\ op = "own" => Modified(m, op, f, S)["own"] = m["own"] \cup {f}
         /\ op = "delete" => Modified(m, op, f, S)["own"] = m["own"] \ {f}
         /\ op \notin {"own", "delete"} => Modified(m, op, f, S)["own"] = m["own"]
         /\ op \in {"own", "replica", "temporary"} =>
              RecordedIn(Modified(m, op, f, S)) = RecordedIn(m) \cup {f}
         /\ op = "delete" => RecordedIn(Modified(m, op, f, S)) = RecordedIn(m) \ {f}
         /\ op \in {"settle", "expire"} => RecordedIn(Modified(m, op, f, S)) = RecordedIn(m)
<1> DEFINE b == Modified(m, op, f, S)
<1>k. \A n \in Meta : RecordedIn(n) = n["own"] \cup n["replica"] \cup n["temporary"]
  BY DEF RecordedIn, Kind, Meta
<1>1. CASE op = "own"
  <2>1. b = [m EXCEPT !["own"] = @ \cup {f}]
    BY <1>1 DEF Modified, With
  <2>2. /\ b \in Meta /\ b["own"] = m["own"] \cup {f}
        /\ b["replica"] = m["replica"] /\ b["temporary"] = m["temporary"]
    BY <2>1, <1>1 DEF Meta, Kind
  <2> QED BY <2>2, <1>k, <1>1
<1>2. CASE op = "temporary"
  <2>1. b = [m EXCEPT !["temporary"] = @ \cup {f}]
    BY <1>2 DEF Modified, With
  <2>2. /\ b \in Meta /\ b["own"] = m["own"]
        /\ b["replica"] = m["replica"] /\ b["temporary"] = m["temporary"] \cup {f}
    BY <2>1, <1>2 DEF Meta, Kind
  <2> QED BY <2>2, <1>k, <1>2
<1>3. CASE op = "replica"
  <2>1. b = [m EXCEPT !["temporary"] = @ \ {f}, !["replica"] = @ \cup {f}]
    BY <1>3 DEF Modified, Settled
  <2>2. /\ b \in Meta /\ b["own"] = m["own"]
        /\ b["replica"] = m["replica"] \cup {f} /\ b["temporary"] = m["temporary"] \ {f}
    BY <2>1, <1>3 DEF Meta, Kind
  <2> QED BY <2>2, <1>k, <1>3
<1>4. CASE op = "delete"
  <2>1. b = [k \in Kind |-> m[k] \ {f}]
    BY <1>4 DEF Modified, Without
  <2>2. /\ b \in Meta /\ b["own"] = m["own"] \ {f}
        /\ b["replica"] = m["replica"] \ {f} /\ b["temporary"] = m["temporary"] \ {f}
    BY <2>1, <1>4 DEF Meta, Kind
  <2> QED BY <2>2, <1>k, <1>4
<1>5. CASE op \in {"settle", "expire"}
  <2>1. b = [m EXCEPT !["temporary"] = @ \ S, !["replica"] = @ \cup S]
    BY <1>5 DEF Modified, Settled
  <2>2. /\ b["own"] = m["own"]
        /\ b["replica"] = m["replica"] \cup S /\ b["temporary"] = m["temporary"] \ S
    BY <2>1, <1>5 DEF Meta, Kind
  <2>3. S \in SUBSET File
    BY DEF Meta, Kind
  <2>4. b \in Meta
    BY <2>1, <2>3 DEF Meta, Kind
  <2> QED BY <2>2, <2>4, <1>k, <1>5
<1> QED BY <1>1, <1>2, <1>3, <1>4, <1>5 DEF Modifying

-----------------------------------------------------------------------------
(* How an action changes what the threads are doing *)

LEMMA Entries ==
  /\ NoMeta \in Meta
  /\ Idle \in Job
  /\ \A pc \in Pc, op \in Op, f \in File \cup {NoFile}, b \in Meta :
       [pc |-> pc, op |-> op, file |-> f, book |-> b] \in Job
BY DEF NoMeta, Meta, Kind, Idle, Job, Pc, Op

LEMMA GoesShape ==
  ASSUME job \in [Thread -> Job], NEW t \in Thread, NEW pc \in Pc, NEW op \in Op,
         NEW f \in File \cup {NoFile}, Goes(t, pc, op, f)
  PROVE  /\ job' \in [Thread -> Job]
         /\ job'[t].pc = pc /\ job'[t].op = op /\ job'[t].file = f /\ job'[t].book = NoMeta
         /\ \A u \in Thread \ {t} : job'[u] = job[u]
BY Entries DEF Goes

LEMMA RestsShape ==
  ASSUME job \in [Thread -> Job], NEW t \in Thread, Rests(t)
  PROVE  /\ job' \in [Thread -> Job]
         /\ job'[t].pc = "idle" /\ job'[t].op = "idle"
         /\ \A u \in Thread \ {t} : job'[u] = job[u]
BY Entries DEF Rests, Idle

-----------------------------------------------------------------------------
(* Type correctness and the lock *)

\* A thread that is on its way through the metadata does one of the operations
\* that modify it, and to a file, unless it is an expiry.
Working ==
  \A t \in Thread : job[t].pc \in {"lock", "save", "write"} =>
    job[t].op \in Modifying /\ (job[t].op # "expire" => job[t].file \in File)

\* A thread that is going to remove or to store a file has a file.
Aimed == \A t \in Thread : job[t].pc \in {"evict", "room", "await", "have"} => job[t].file \in File

\* The holder of the lock writes what its operation makes of the lists as
\* they still are.
Booked ==
  \A t \in Thread : job[t].pc \in {"save", "write"} =>
    \E S \in SUBSET meta["temporary"] :
      job[t].book = Modified(meta, job[t].op, job[t].file, S)

Basis == TypeOK /\ Working /\ Aimed /\ Booked

\* A thread that does not hold the lock, and does not take it, goes on to
\* another step.
LEMMA Aside ==
  ASSUME Basis, NEW t \in Thread, ~At(t, "save"), ~At(t, "write"),
         UNCHANGED <<meta, lock>>, job' \in [Thread -> Job],
         job'[t].pc \notin {"save", "write"},
         job'[t].pc = "lock" =>
           job'[t].op \in Modifying /\ (job'[t].op # "expire" => job'[t].file \in File),
         job'[t].pc \in {"evict", "room", "await", "have"} => job'[t].file \in File,
         \A u \in Thread \ {t} : job'[u] = job[u]
  PROVE  /\ \A u \in Thread : job'[u].pc \in {"save", "write"} <=> lock' = u
         /\ Working' /\ Aimed' /\ Booked'
<1>1. \A u \in Thread : job'[u].pc \in {"save", "write"} <=> lock' = u
  BY DEF Basis, TypeOK, At
<1>2. Working'
  BY DEF Basis, Working, At
<1>3. Aimed'
  BY DEF Basis, Aimed, At
<1>4. Booked'
  <2> SUFFICES ASSUME NEW u \in Thread, job'[u].pc \in {"save", "write"}
               PROVE  \E S \in SUBSET meta["temporary"] :
                        job'[u].book = Modified(meta, job'[u].op, job'[u].file, S)
    BY DEF Booked
  <2>1. u # t /\ job'[u] = job[u]
    OBVIOUS
  <2> QED BY <2>1 DEF Basis, Booked
<1> QED BY <1>1, <1>2, <1>3, <1>4

\* Thread t is sent to a step that needs no lock, or is done.
LEMMA AsideGoes ==
  ASSUME Basis, NEW t \in Thread, ~At(t, "save"), ~At(t, "write"), UNCHANGED <<meta, lock>>,
         NEW pc \in Pc \ {"save", "write"}, NEW op \in Op, NEW f \in File \cup {NoFile},
         pc = "lock" => op \in Modifying /\ (op # "expire" => f \in File),
         pc \in {"evict", "room", "await", "have"} => f \in File,
         Goes(t, pc, op, f)
  PROVE  /\ job' \in [Thread -> Job]
         /\ \A u \in Thread : job'[u].pc \in {"save", "write"} <=> lock' = u
         /\ Working' /\ Aimed' /\ Booked'
<1>0. job \in [Thread -> Job]
  BY DEF Basis, TypeOK
<1>1. /\ job' \in [Thread -> Job]
      /\ job'[t].pc = pc /\ job'[t].op = op /\ job'[t].file = f
      /\ \A u \in Thread \ {t} : job'[u] = job[u]
  BY <1>0, GoesShape
<1>2. /\ job'[t].pc \notin {"save", "write"}
      /\ job'[t].pc = "lock" =>
           job'[t].op \in Modifying /\ (job'[t].op # "expire" => job'[t].file \in File)
      /\ job'[t].pc \in {"evict", "room", "await", "have"} => job'[t].file \in File
  BY <1>1
<1> QED BY <1>1, <1>2, Aside

LEMMA AsideRests ==
  ASSUME Basis, NEW t \in Thread, ~At(t, "save"), ~At(t, "write"), UNCHANGED <<meta, lock>>,
         Rests(t)
  PROVE  /\ job' \in [Thread -> Job]
         /\ \A u \in Thread : job'[u].pc \in {"save", "write"} <=> lock' = u
         /\ Working' /\ Aimed' /\ Booked'
<1>0. job \in [Thread -> Job]
  BY DEF Basis, TypeOK
<1>1. /\ job' \in [Thread -> Job] /\ job'[t].pc = "idle"
      /\ \A u \in Thread \ {t} : job'[u] = job[u]
  BY <1>0, RestsShape
<1> QED BY <1>1, Aside

\* The bookkeeping stays as it is when neither threads nor lists change.
LEMMA BasisSame ==
  ASSUME Basis, UNCHANGED <<job, lock, meta>>
  PROVE  /\ job' \in [Thread -> Job]
         /\ \A u \in Thread : job'[u].pc \in {"save", "write"} <=> lock' = u
         /\ Working' /\ Aimed' /\ Booked'
<1>1. Booked'
  BY DEF Basis, Booked
<1> QED BY <1>1 DEF Basis, TypeOK, Working, Aimed

-----------------------------------------------------------------------------
(* The steps through the metadata *)

\* Load takes the lock, and with it the lists as they are, or has nothing to do.
LEMMA LoadKeepsBasis ==
  ASSUME Basis, NEW t \in Thread, Load(t)
  PROVE  /\ job' \in [Thread -> Job] /\ lock' \in Thread \cup {NoThread}
         /\ \A u \in Thread : job'[u].pc \in {"save", "write"} <=> lock' = u
         /\ Working' /\ Aimed' /\ Booked'
<1> USE StorageAssumption
<1>0. /\ job \in [Thread -> Job] /\ meta \in Meta /\ meta' = meta /\ NoThread \notin Thread
      /\ lock = NoThread /\ job[t].pc = "lock"
  BY DEF Basis, TypeOK, Load, At, Thread
<1>1. PICK S \in SUBSET meta["temporary"] :
        IF job[t].op \in {"settle", "expire"} /\ S = {}
          THEN Rests(t) /\ UNCHANGED lock
          ELSE /\ lock' = t
               /\ job' = [job EXCEPT ![t].pc = "save",
                    ![t].book = Modified(meta, job[t].op, job[t].file, S)]
  BY DEF Load
<1>2. CASE Rests(t) /\ UNCHANGED lock
  <2>1. ~At(t, "save") /\ ~At(t, "write") /\ UNCHANGED <<meta, lock>>
    BY <1>0, <1>2 DEF At
  <2> QED BY <2>1, <1>2, AsideRests DEF Basis, TypeOK
<1>3. CASE /\ lock' = t
           /\ job' = [job EXCEPT ![t].pc = "save",
                ![t].book = Modified(meta, job[t].op, job[t].file, S)]
  <2> DEFINE b == Modified(meta, job[t].op, job[t].file, S)
  <2>1. /\ job[t].op \in Modifying /\ (job[t].op # "expire" => job[t].file \in File)
        /\ job[t] \in Job
    BY <1>0 DEF Basis, Working
  <2>2. b \in Meta
    BY <1>0, <2>1, ModifiedFacts
  <2>3. /\ job'[t].pc = "save" /\ job'[t].op = job[t].op /\ job'[t].file = job[t].file
        /\ job'[t].book = b /\ job'[t] \in Job
        /\ \A u \in Thread \ {t} : job'[u] = job[u]
        /\ job' = [u \in Thread |-> job'[u]]
    <3> HIDE DEF b
    <3> QED BY <1>0, <1>3, <2>1, <2>2 DEF Job, Pc, b
  <2>4. job' \in [Thread -> Job]
    BY <1>0, <2>3
  <2>5. \A u \in Thread : job'[u].pc \in {"save", "write"} <=> lock' = u
    BY <1>0, <1>3, <2>3 DEF Basis, TypeOK
  <2>6. Working' /\ Aimed'
    BY <2>1, <2>3 DEF Basis, Working, Aimed
  <2>7. Booked'
    <3>1. \A u \in Thread \ {t} : job'[u].pc \notin {"save", "write"}
      BY <1>3, <2>5
    <3> SUFFICES ASSUME NEW u \in Thread, job'[u].pc \in {"save", "write"}
                 PROVE  \E R \in SUBSET meta["temporary"] :
                          job'[u].book = Modified(meta, job'[u].op, job'[u].file, R)
      BY <1>0 DEF Booked
    <3> QED BY <1>0, <2>3, <3>1
  <2> QED BY <1>3, <2>4, <2>5, <2>6, <2>7
<1> QED BY <1>1, <1>2, <1>3

\* Truncate keeps the lock and what is going to be written.
LEMMA TruncateKeepsBasis ==
  ASSUME Basis, NEW t \in Thread, Truncate(t)
  PROVE  /\ job' \in [Thread -> Job]
         /\ \A u \in Thread : job'[u].pc \in {"save", "write"} <=> lock' = u
         /\ Working' /\ Aimed' /\ Booked'
<1>0. /\ job \in [Thread -> Job] /\ meta' = meta /\ lock' = lock /\ job[t].pc = "save"
      /\ job' = [job EXCEPT ![t].pc = "write"] /\ job[t] \in Job
  BY DEF Basis, TypeOK, Truncate, At
<1>1. /\ job'[t].pc = "write" /\ job'[t].op = job[t].op /\ job'[t].file = job[t].file
      /\ job'[t].book = job[t].book /\ job'[t] \in Job
      /\ \A u \in Thread \ {t} : job'[u] = job[u]
      /\ job' = [u \in Thread |-> job'[u]]
  BY <1>0 DEF Job, Pc
<1>2. job' \in [Thread -> Job]
  BY <1>0, <1>1
<1>3. \A u \in Thread : job'[u].pc \in {"save", "write"} <=> lock' = u
  BY <1>0, <1>1 DEF Basis, TypeOK
<1>4. Working' /\ Aimed'
  BY <1>0, <1>1 DEF Basis, Working, Aimed
<1>5. Booked'
  <2> SUFFICES ASSUME NEW u \in Thread, job'[u].pc \in {"save", "write"}
               PROVE  \E S \in SUBSET meta["temporary"] :
                        job'[u].book = Modified(meta, job'[u].op, job'[u].file, S)
    BY <1>0 DEF Booked
  <2>1. job[u].pc \in {"save", "write"}
    BY <1>0, <1>1
  <2>2. /\ job'[u].op = job[u].op /\ job'[u].file = job[u].file /\ job'[u].book = job[u].book
    BY <1>1
  <2> QED BY <2>1, <2>2 DEF Basis, Booked
<1> QED BY <1>2, <1>3, <1>4, <1>5

\* Write puts the modified lists in place and leaves the lock to nobody.
LEMMA WriteKeepsBasis ==
  ASSUME Basis, NEW t \in Thread, Write(t)
  PROVE  /\ job' \in [Thread -> Job]
         /\ \A u \in Thread : job'[u].pc \in {"save", "write"} <=> lock' = u
         /\ Working' /\ Aimed' /\ Booked'
         /\ job[t].op \in Modifying /\ (job[t].op # "expire" => job[t].file \in File)
         /\ \E S \in SUBSET meta["temporary"] :
              meta' = Modified(meta, job[t].op, job[t].file, S)
         /\ meta' \in Meta
         /\ lock = t
<1> USE StorageAssumption
<1>0. /\ job \in [Thread -> Job] /\ job[t].pc = "write" /\ lock = t /\ lock' = NoThread
      /\ meta' = job[t].book /\ Rests(t) /\ NoThread \notin Thread
  BY DEF Basis, TypeOK, Write, At, Thread
<1>1. /\ job' \in [Thread -> Job] /\ job'[t].pc = "idle"
      /\ \A u \in Thread \ {t} : job'[u] = job[u]
  BY <1>0, RestsShape
<1>2. \A u \in Thread : job'[u].pc \notin {"save", "write"}
  BY <1>0, <1>1 DEF Basis, TypeOK
<1>3. Working' /\ Aimed' /\ Booked'
  BY <1>1, <1>2 DEF Basis, Working, Aimed, Booked
<1>4. /\ job[t].op \in Modifying /\ (job[t].op # "expire" => job[t].file \in File)
      /\ \E S \in SUBSET meta["temporary"] :
           meta' = Modified(meta, job[t].op, job[t].file, S)
  BY <1>0 DEF Basis, Working, Booked
<1>5. meta' \in Meta
  BY <1>0 DEF Job
<1> QED BY <1>0, <1>1, <1>2, <1>3, <1>4, <1>5

\* A crash leaves no thread under way and nobody with the lock.
LEMMA CrashKeepsBasis ==
  ASSUME Basis, Crash
  PROVE  /\ job' \in [Thread -> Job]
         /\ \A u \in Thread : job'[u].pc \in {"save", "write"} <=> lock' = u
         /\ Working' /\ Aimed' /\ Booked'
<1> USE StorageAssumption
<1>1. /\ job' = [t \in Thread |-> Idle] /\ lock' = NoThread /\ NoThread \notin Thread
      /\ Idle \in Job /\ Idle.pc = "idle"
  BY Entries DEF Crash, Thread, Idle
<1>2. \A u \in Thread : job'[u].pc = "idle"
  BY <1>1
<1> QED BY <1>1, <1>2 DEF Working, Aimed, Booked

-----------------------------------------------------------------------------
(* All steps *)

\* The conjuncts of TypeOK that are not about threads.
Typed ==
  /\ disk \subseteq File /\ meta \in Meta /\ readable \in BOOLEAN
  /\ lock \in Thread \cup {NoThread}
  /\ quota \in Quotas /\ accepted \subseteq File
  /\ withdrawn \subseteq published /\ published \subseteq File /\ minted \subseteq Own
  /\ stray \subseteq File
  /\ crowded \in BOOLEAN /\ ops \in 0 .. MaxOps /\ crashes \in 0 .. MaxCrashes

\* Those that are.
Threads ==
  /\ job \in [Thread -> Job]
  /\ \A u \in Thread : job[u].pc \in {"save", "write"} <=> lock = u
  /\ Working /\ Aimed /\ Booked

LEMMA BasisParts == Basis <=> Typed /\ Threads
BY DEF Basis, TypeOK, Typed, Threads

LEMMA StoreFileKeeps ==
  ASSUME Basis, NEW t \in Thread, NEW f \in File, ~At(t, "save"), ~At(t, "write"),
         NEW op \in {"own", "replica", "temporary"}, StoreFile(t, op, f)
  PROVE  Threads' /\ disk' \subseteq File /\ stray' \subseteq File
<1>1. /\ Goes(t, "lock", op, f) /\ UNCHANGED <<meta, lock>>
      /\ op \in Op /\ op \in Modifying /\ "lock" \in Pc \ {"save", "write"}
  BY DEF StoreFile, Op, Modifying, Pc
<1>2. Threads'
  <2> HIDE DEF Threads
  <2>1. /\ job' \in [Thread -> Job]
        /\ \A u \in Thread : job'[u].pc \in {"save", "write"} <=> lock' = u
        /\ Working' /\ Aimed' /\ Booked'
    BY <1>1, AsideGoes
  <2> QED BY <2>1 DEF Threads
<1>3. disk' \subseteq File /\ stray' \subseteq File
  BY DEF StoreFile, Upset, Basis, TypeOK
<1> QED BY <1>2, <1>3

LEMMA RemoveFileKeeps ==
  ASSUME Basis, NEW t \in Thread, NEW f \in File, ~At(t, "save"), ~At(t, "write"),
         RemoveFile(t, f)
  PROVE  Threads' /\ disk' \subseteq File /\ stray' \subseteq File
<1>0. /\ UNCHANGED <<meta, lock>>
      /\ "delete" \in Op /\ "delete" \in Modifying /\ "lock" \in Pc \ {"save", "write"}
  BY DEF RemoveFile, Op, Modifying, Pc
<1>1. CASE f \in disk
  <2>1. Goes(t, "lock", "delete", f)
    BY <1>1 DEF RemoveFile
  <2>2. /\ job' \in [Thread -> Job]
        /\ \A u \in Thread : job'[u].pc \in {"save", "write"} <=> lock' = u
        /\ Working' /\ Aimed' /\ Booked'
    BY <1>0, <2>1, AsideGoes
  <2> QED BY <1>1, <2>2 DEF Threads, RemoveFile, Upset, Basis, TypeOK
<1>2. CASE f \notin disk
  <2>1. Rests(t)
    BY <1>2 DEF RemoveFile
  <2>2. /\ job' \in [Thread -> Job]
        /\ \A u \in Thread : job'[u].pc \in {"save", "write"} <=> lock' = u
        /\ Working' /\ Aimed' /\ Booked'
    BY <1>0, <2>1, AsideRests
  <2> QED BY <1>2, <2>2 DEF Threads, RemoveFile, Basis, TypeOK
<1> QED BY <1>1, <1>2

LEMMA BasisInit == Init => Basis
<1> USE StorageAssumption
<1> SUFFICES ASSUME Init PROVE Basis
  OBVIOUS
<1>1. \A t \in Thread : job[t].pc = "idle" /\ t # NoThread
  BY DEF Init, Idle, Thread
<1>2. Typed
  <2>1. meta \in Meta
    BY Entries DEF Init
  <2>2. 0 \in 0 .. MaxOps /\ 0 \in 0 .. MaxCrashes
    OBVIOUS
  <2>3. readable \in BOOLEAN /\ crowded \in BOOLEAN
    BY DEF Init
  <2> QED BY <2>1, <2>2, <2>3 DEF Init, Typed
<1>3. Threads
  BY <1>1, Entries DEF Init, Threads, Working, Aimed, Booked
<1> QED BY <1>2, <1>3, BasisParts

\* One step for each action.
LEMMA BasisNext == Basis /\ [Next]_vars => Basis'
<1> USE StorageAssumption DEF history
<1> SUFFICES ASSUME Basis, [Next]_vars PROVE Typed' /\ Threads'
  BY DEF Basis, TypeOK, Typed, Threads
<1>t. Typed
  BY BasisParts
<1>p. /\ {"lock", "evict", "room", "await", "have"} \subseteq Pc \ {"save", "write"}
      /\ {"idle", "settle", "expire", "evict"} \subseteq Op
      /\ {"settle", "expire"} \subseteq Modifying
      /\ NoFile \in File \cup {NoFile} /\ Recv \in Thread /\ Sched \in Thread
      /\ Web \subseteq Thread
  BY DEF Pc, Op, Modifying, Thread
<1>i. \A t \in Thread, pc \in Pc : pc \notin {"save", "write"} /\ At(t, pc) => ~At(t, "save") /\ ~At(t, "write")
  BY DEF At
<1>l. Listed \subseteq File
  BY <1>t DEF Listed, Typed
<1>b. \A t \in Thread : Begins(t) => ops' \in 0 .. MaxOps /\ ~At(t, "save") /\ ~At(t, "write")
  BY <1>t DEF Begins, Typed, At
<1>c. \A S, q : Beside(S, q) \in BOOLEAN
  BY DEF Beside
<1>r. ASSUME NEW t \in Thread, ~At(t, "save"), ~At(t, "write"), UNCHANGED <<meta, lock>>, Rests(t)
      PROVE  Threads'
  BY <1>r, AsideRests DEF Threads
<1>s. UNCHANGED <<job, lock, meta>> => Threads'
  BY BasisSame DEF Threads
<1>1. ASSUME NEW t \in Thread, Load(t) PROVE Typed' /\ Threads'
  BY <1>1, <1>t, LoadKeepsBasis DEF Load, Typed, Threads
<1>2. ASSUME NEW t \in Thread, LoadFails(t) PROVE Typed' /\ Threads'
  <2>1. ~At(t, "save") /\ ~At(t, "write") /\ UNCHANGED <<meta, lock>> /\ Rests(t)
    BY <1>2 DEF LoadFails, At
  <2>2. Unrecorded(t) => job[t].file \in File
    BY DEF Basis, Working, Unrecorded
  <2>3. Threads'
    BY <2>1, <1>r
  <2>4. Typed'
    BY <1>2, <1>t, <2>2 DEF LoadFails, Typed
  <2> QED BY <2>3, <2>4
<1>3. ASSUME NEW t \in Thread, Truncate(t) PROVE Typed' /\ Threads'
  BY <1>3, <1>t, TruncateKeepsBasis DEF Truncate, Typed, Threads
<1>4. ASSUME NEW t \in Thread, Write(t) PROVE Typed' /\ Threads'
  <2>1. Threads' /\ meta' \in Meta
    BY <1>4, WriteKeepsBasis DEF Threads
  <2>2. job[t].op = "own" => job[t].file \in File
    BY <1>4, WriteKeepsBasis
  <2> QED BY <1>4, <1>t, <2>1, <2>2 DEF Write, Typed
<1>5. ASSUME NEW t \in Web, NEW f \in File, Publish(t, f) PROVE Typed' /\ Threads'
  <2>1. StoreFile(t, "own", f) /\ t \in Thread /\ Begins(t)
    BY <1>5, <1>p DEF Publish
  <2>2. Threads' /\ disk' \subseteq File /\ stray' \subseteq File
    BY <2>1, <1>b, StoreFileKeeps
  <2>3. Typed'
    BY <1>5, <1>t, <1>b, <1>c, <2>1, <2>2 DEF Publish, StoreFile, Typed
  <2> QED BY <2>2, <2>3
<1>6. ASSUME NEW t \in Web, NEW f \in File, Withdraw(t, f) PROVE Typed' /\ Threads'
  <2>1. RemoveFile(t, f) /\ t \in Thread /\ Begins(t)
    BY <1>6, <1>p DEF Withdraw
  <2>2. Threads' /\ disk' \subseteq File /\ stray' \subseteq File
    BY <2>1, <1>b, RemoveFileKeeps
  <2>3. Typed'
    BY <1>6, <1>t, <1>b, <2>1, <2>2 DEF Withdraw, RemoveFile, Typed
  <2> QED BY <2>2, <2>3
<1>7. ASSUME NEW t \in Web, NEW f \in File, CloseTab(t, f) PROVE Typed' /\ Threads'
  <2>1. Goes(t, "lock", "settle", f) /\ t \in Thread /\ Begins(t)
    BY <1>7, <1>p DEF CloseTab
  <2>2. Threads'
    BY <1>7, <2>1, <1>b, <1>p, AsideGoes DEF CloseTab, Threads
  <2>3. Typed'
    BY <1>7, <1>t, <1>b, <2>1 DEF CloseTab, Typed
  <2> QED BY <2>2, <2>3
<1>8. ASSUME NEW t \in Web, NEW q \in Quotas, SetQuota(t, q) PROVE Typed' /\ Threads'
  <2>1. Threads'
    BY <1>8, <1>s DEF SetQuota
  <2>2. Typed'
    BY <1>8, <1>t, <1>b, <1>c, <1>p DEF SetQuota, Typed
  <2> QED BY <2>1, <2>2
<1>21. ASSUME NEW t \in Web, NEW f \in File, Wish(t, f) PROVE Typed' /\ Threads'
  <2>1. Threads'
    BY <1>21, <1>s DEF Wish
  <2>2. Typed'
    BY <1>21, <1>t, <1>b, <1>c, <1>p DEF Wish, Typed
  <2> QED BY <2>1, <2>2
<1>9. ASSUME NEW f \in File, CheckRoom(f) PROVE Typed' /\ Threads'
  <2> DEFINE e == [pc |-> "room", op |-> "room", file |-> f,
                   book |-> [NoMeta EXCEPT !["own"] = meta["own"] \cap disk]]
  <2>1. /\ job \in [Thread -> Job] /\ meta["own"] \cap disk \in SUBSET File
    BY <1>t DEF Basis, TypeOK, Typed
  <2>2. [NoMeta EXCEPT !["own"] = meta["own"] \cap disk] \in Meta
    BY <2>1 DEF NoMeta, Meta, Kind
  <2>3. e \in Job /\ e.pc = "room" /\ e.op = "room" /\ e.file = f
    BY <2>2 DEF Job, Pc, Op
  <2>4. job' = [job EXCEPT ![Recv] = e]
    BY <1>9 DEF CheckRoom
  <2>5. /\ job' \in [Thread -> Job] /\ job'[Recv] = e
        /\ \A u \in Thread \ {Recv} : job'[u] = job[u]
    <3> HIDE DEF e
    <3> QED BY <2>1, <2>3, <2>4, <1>p
  <2>6. ~At(Recv, "save") /\ ~At(Recv, "write") /\ UNCHANGED <<meta, lock>>
    BY <1>9, <1>b, <1>p DEF CheckRoom
  <2>7. Threads'
    BY <2>3, <2>5, <2>6, <1>p, Aside DEF Threads
  <2>8. Typed'
    <3>1. crowded' \in BOOLEAN
      BY <1>9 DEF CheckRoom
    <3> QED BY <1>9, <1>t, <1>b, <1>p, <3>1 DEF CheckRoom, Typed
  <2> QED BY <2>7, <2>8
<1>10. CASE Accept
  <2>1. ~At(Recv, "save") /\ ~At(Recv, "write") /\ UNCHANGED <<meta, lock>> /\ Rests(Recv)
    BY <1>10 DEF Accept, At
  <2>2. Threads'
    BY <2>1, <1>r, <1>p
  <2>3. job[Recv].file \in File
    BY <1>10, <1>p DEF Accept, At, Basis, Aimed
  <2>4. Typed'
    <3>1. accepted' \subseteq File /\ crowded' \in BOOLEAN
      BY <1>10, <1>t, <2>3 DEF Accept, Typed
    <3> QED BY <1>10, <1>t, <3>1 DEF Accept, Typed
  <2> QED BY <2>2, <2>4
<1>11. ASSUME NEW f \in File, Complete(f) PROVE Typed' /\ Threads'
  <2>1. StoreFile(Recv, "temporary", f) /\ Begins(Recv)
    BY <1>11 DEF Complete
  <2>2. Threads' /\ disk' \subseteq File /\ stray' \subseteq File
    BY <2>1, <1>b, <1>p, StoreFileKeeps
  <2>3. crowded' \in BOOLEAN
    BY <1>11, <1>t, <1>c DEF Complete, Typed
  <2>4. Typed'
    BY <1>11, <1>t, <1>b, <1>p, <2>1, <2>2, <2>3 DEF Complete, StoreFile, Typed
  <2> QED BY <2>2, <2>4
<1>12. ASSUME NEW f \in File, OnDelete(f) PROVE Typed' /\ Threads'
  <2>1. RemoveFile(Recv, f) /\ Begins(Recv)
    BY <1>12 DEF OnDelete
  <2>2. Threads' /\ disk' \subseteq File /\ stray' \subseteq File
    BY <2>1, <1>b, <1>p, RemoveFileKeeps
  <2>3. withdrawn' \subseteq published
    BY <1>12, <1>t DEF OnDelete, Listed, Typed
  <2>4. Typed'
    BY <1>12, <1>t, <1>b, <1>p, <2>1, <2>2, <2>3 DEF OnDelete, RemoveFile, Typed
  <2> QED BY <2>2, <2>4
<1>13. ASSUME NEW f \in File, Solicit(f) PROVE Typed' /\ Threads'
  <2>1. ~At(Sched, "save") /\ ~At(Sched, "write") /\ UNCHANGED <<meta, lock>>
    BY <1>13 DEF Solicit, At
  <2>2. Threads'
    BY <1>13, <2>1, <1>p, <1>s, AsideGoes DEF Solicit, Threads
  <2>3. Typed'
    BY <1>13, <1>t DEF Solicit, Typed
  <2> QED BY <2>2, <2>3
<1>14. CASE Fetch
  <2>1. ~At(Sched, "save") /\ ~At(Sched, "write") /\ UNCHANGED <<meta, lock>>
    BY <1>14 DEF Fetch, At
  <2>2. job[Sched].file \in File
    BY <1>14, <1>p DEF Fetch, At, Basis, Aimed
  <2>3. Threads'
    BY <1>14, <2>1, <2>2, <1>p, <1>r, AsideGoes DEF Fetch, Threads
  <2>4. Typed'
    BY <1>14, <1>t DEF Fetch, Typed
  <2> QED BY <2>3, <2>4
<1>15. CASE StoreReplica
  <2>1. /\ StoreFile(Sched, "replica", job[Sched].file)
        /\ ~At(Sched, "save") /\ ~At(Sched, "write") /\ job[Sched].file \in File
    BY <1>15, <1>p DEF StoreReplica, At, Basis, Aimed
  <2>2. Threads' /\ disk' \subseteq File /\ stray' \subseteq File
    BY <2>1, <1>p, StoreFileKeeps
  <2>3. Typed'
    BY <1>15, <1>t, <2>1, <2>2 DEF StoreReplica, StoreFile, Typed
  <2> QED BY <2>2, <2>3
<1>16. CASE CleanUpExpired
  <2>1. Goes(Sched, "lock", "expire", NoFile) /\ Begins(Sched) /\ UNCHANGED <<meta, lock>>
    BY <1>16 DEF CleanUpExpired
  <2>2. Threads'
    BY <2>1, <1>b, <1>p, AsideGoes DEF Threads
  <2>3. Typed'
    BY <1>16, <1>t, <1>b, <1>p, <2>1 DEF CleanUpExpired, Typed
  <2> QED BY <2>2, <2>3
<1>17. ASSUME NEW f \in File, Select(f) PROVE Typed' /\ Threads'
  <2>1. Goes(Sched, "evict", "evict", f) /\ Begins(Sched) /\ UNCHANGED <<meta, lock>>
    BY <1>17 DEF Select
  <2>2. Threads'
    BY <2>1, <1>b, <1>p, AsideGoes DEF Threads
  <2>3. Typed'
    BY <1>17, <1>t, <1>b, <1>p, <2>1 DEF Select, Typed
  <2> QED BY <2>2, <2>3
<1>18. CASE Evict
  <2>1. /\ RemoveFile(Sched, job[Sched].file)
        /\ ~At(Sched, "save") /\ ~At(Sched, "write") /\ job[Sched].file \in File
    BY <1>18, <1>p DEF Evict, At, Basis, Aimed
  <2>2. Threads' /\ disk' \subseteq File /\ stray' \subseteq File
    BY <2>1, <1>p, RemoveFileKeeps
  <2>3. Typed'
    BY <1>18, <1>t, <2>1, <2>2 DEF Evict, RemoveFile, Typed
  <2> QED BY <2>2, <2>3
<1>19. CASE Crash
  <2>1. Threads'
    BY <1>19, CrashKeepsBasis DEF Threads
  <2>2. stray' \subseteq File
    BY <1>19, <1>t DEF Crash, Typed, Basis, Working, Unrecorded
  <2>3. Typed'
    BY <1>19, <1>t, <2>2 DEF Crash, Typed
  <2> QED BY <2>1, <2>3
<1>20. CASE UNCHANGED vars
  <2>1. Threads'
    BY <1>20, <1>s DEF vars
  <2> QED BY <1>20, <1>t, <2>1 DEF vars, Typed
<1> QED
  BY <1>1, <1>2, <1>3, <1>4, <1>5, <1>6, <1>7, <1>8, <1>9, <1>10, <1>11, <1>12, <1>13,
     <1>14, <1>15, <1>16, <1>17, <1>18, <1>19, <1>20, <1>21 DEF Next

\* Every reachable state has the shape TypeOK gives it, and exactly the thread
\* that is saving the metadata holds the lock.
THEOREM TypeCorrect == Spec => []TypeOK
<1>1. Basis => TypeOK
  BY DEF Basis
<1> QED BY BasisInit, BasisNext, <1>1, PTL DEF Spec

-----------------------------------------------------------------------------
(* Originator protection *)

\* Rebalancing, a deletion or the bookkeeping about one is under way.
Doomed(t) == At(t, "evict") \/ (Unrecorded(t) /\ job[t].op = "delete")

\* A publication has stored its file and not yet recorded it.
Publishes(t) == Unrecorded(t) /\ job[t].op = "own"

\* What may go: files of others, and own ones that the author has deleted.
Dispensable == (File \ Own) \cup withdrawn

\* An own file that is stored and not yet recorded is one thread's alone and
\* not yet listed, and only dispensable files are on their way out.
Owners ==
  /\ published \subseteq minted
  /\ \A t \in Thread : Publishes(t) => job[t].file \in (minted \ published) \cap disk
  /\ \A t, u \in Thread : Publishes(t) /\ Publishes(u) /\ job[t].file = job[u].file => t = u
  /\ \A t \in Thread : Doomed(t) => job[t].file \in Dispensable
  /\ OriginatorKeeps

\* A step that begins no publication, records none and removes only what is
\* dispensable.
LEMMA OwnersKept ==
  ASSUME Basis, Basis', Owners, UNCHANGED <<meta, minted, published>>,
         withdrawn \subseteq withdrawn', disk \ disk' \subseteq Dispensable',
         \A u \in Thread :
           Publishes(u)' => Publishes(u) /\ job'[u].file = job[u].file,
         \A u \in Thread : Doomed(u)' => job'[u].file \in Dispensable'
  PROVE  Owners'
<1>0. /\ published' \subseteq minted' /\ minted \subseteq Own
      /\ withdrawn' \subseteq published'
  BY DEF Owners, Basis, TypeOK
<1>d. \A f \in Dispensable' : f \notin minted \/ f \in withdrawn'
  BY <1>0 DEF Dispensable
<1>1. \A t \in Thread : Publishes(t)' => job'[t].file \in (minted' \ published') \cap disk'
  <2> SUFFICES ASSUME NEW t \in Thread, Publishes(t)'
               PROVE  job'[t].file \in (minted' \ published') \cap disk'
    OBVIOUS
  <2>1. /\ job'[t].file \in (minted \ published) \cap disk
    BY DEF Owners
  <2> QED BY <2>1, <1>0, <1>d
<1>2. \A t, u \in Thread : Publishes(t)' /\ Publishes(u)' /\ job'[t].file = job'[u].file => t = u
  BY DEF Owners
<1>3. OriginatorKeeps'
  BY <1>0, <1>d DEF Owners, OriginatorKeeps
<1> QED BY <1>0, <1>1, <1>2, <1>3 DEF Owners

\* An own file is stored under an id that is new.
LEMMA PublishKeepsOwners ==
  ASSUME Basis, Owners, NEW t \in Web, NEW f \in File, Publish(t, f)
  PROVE  Owners'
<1>0. /\ t \in Thread /\ ~Unrecorded(t) /\ f \notin minted
      /\ minted' = minted \cup {f} /\ published' = published /\ withdrawn' = withdrawn
      /\ disk' = disk \cup {f} /\ meta' = meta /\ published \subseteq minted
  BY DEF Publish, Begins, At, Unrecorded, StoreFile, Thread, Owners
<1>1. /\ job'[t].pc = "lock" /\ job'[t].op = "own" /\ job'[t].file = f
      /\ \A u \in Thread \ {t} : job'[u] = job[u]
  <2>1. job \in [Thread -> Job] /\ Goes(t, "lock", "own", f) /\ "lock" \in Pc /\ "own" \in Op
    BY DEF Publish, StoreFile, Basis, TypeOK, Pc, Op
  <2> QED BY <1>0, <2>1, GoesShape
<1>2. \A u \in Thread \ {t} :
        /\ Publishes(u)' => Publishes(u) /\ job'[u].file = job[u].file
        /\ Doomed(u)' => Doomed(u) /\ job'[u].file = job[u].file
  BY <1>1 DEF Publishes, Doomed, Unrecorded, At
<1>3. ~Doomed(t)'
  BY <1>1 DEF Doomed, At
<1>4. \A u \in Thread : Publishes(u)' => job'[u].file \in (minted' \ published') \cap disk'
  BY <1>0, <1>1, <1>2 DEF Owners
<1>5. \A u, v \in Thread : Publishes(u)' /\ Publishes(v)' /\ job'[u].file = job'[v].file => u = v
  BY <1>0, <1>1, <1>2 DEF Owners
<1>6. \A u \in Thread : Doomed(u)' => job'[u].file \in Dispensable'
  BY <1>0, <1>2, <1>3 DEF Owners, Dispensable
<1>7. OriginatorKeeps'
  BY <1>0 DEF Owners, OriginatorKeeps
<1> QED BY <1>0, <1>4, <1>5, <1>6, <1>7 DEF Owners

\* Recording a publication protects its file; recording anything else takes
\* none from the list of own files but what is dispensable.
LEMMA WriteKeepsOwners ==
  ASSUME Basis, Owners, NEW t \in Thread, Write(t)
  PROVE  Owners'
<1> DEFINE f == job[t].file
<1>0. /\ job[t].pc = "write" /\ job[t].op \in Modifying
      /\ minted' = minted /\ withdrawn' = withdrawn /\ disk' = disk
      /\ published' = IF job[t].op = "own" THEN published \cup {f} ELSE published
      /\ published \subseteq minted /\ minted \subseteq Own
      /\ withdrawn \subseteq published /\ meta \in Meta
  BY WriteKeepsBasis DEF Write, At, Owners, Basis, TypeOK
<1>1. job'[t].pc = "idle" /\ \A u \in Thread \ {t} : job'[u] = job[u]
  <2>1. job \in [Thread -> Job] /\ Rests(t)
    BY DEF Write, Basis, TypeOK
  <2> QED BY <2>1, RestsShape
<1>2. \A u \in Thread \ {t} :
        /\ Publishes(u)' => Publishes(u) /\ job'[u].file = job[u].file
        /\ Doomed(u)' => Doomed(u) /\ job'[u].file = job[u].file
  BY <1>1 DEF Publishes, Doomed, Unrecorded, At
<1>3. ~Publishes(t)' /\ ~Doomed(t)'
  BY <1>1 DEF Publishes, Doomed, Unrecorded, At
<1>p. job[t].op = "own" => Publishes(t)
  BY <1>0 DEF Publishes, Unrecorded
<1>q. job[t].op = "delete" => f \in Dispensable
  BY <1>0 DEF Owners, Doomed, Unrecorded
<1>m. /\ job[t].op = "own" => meta'["own"] = meta["own"] \cup {f}
      /\ job[t].op = "delete" => meta'["own"] = meta["own"] \ {f}
      /\ job[t].op \notin {"own", "delete"} => meta'["own"] = meta["own"]
  <2>1. PICK S \in SUBSET meta["temporary"] : meta' = Modified(meta, job[t].op, f, S)
    BY WriteKeepsBasis
  <2>2. job[t].op # "expire" => f \in File
    BY WriteKeepsBasis
  <2>3. meta \in Meta /\ job[t].op \in Modifying
    BY <1>0
  <2> DEFINE op == job[t].op
             b == Modified(meta, op, f, S)
  <2>4. op \in Modifying /\ (op # "expire" => f \in File)
    BY <2>2, <2>3
  <2>5. /\ op = "own" => b["own"] = meta["own"] \cup {f}
        /\ op = "delete" => b["own"] = meta["own"] \ {f}
        /\ op \notin {"own", "delete"} => b["own"] = meta["own"]
    <3> HIDE DEF op, f
    <3> QED BY <2>3, <2>4, ModifiedFacts
  <2> QED BY <2>1, <2>5
<1>4. \A u \in Thread : Publishes(u)' => job'[u].file \in (minted' \ published') \cap disk'
  BY <1>0, <1>2, <1>3, <1>p DEF Owners
<1>5. \A u, v \in Thread : Publishes(u)' /\ Publishes(v)' /\ job'[u].file = job'[v].file => u = v
  BY <1>2, <1>3 DEF Owners
<1>6. \A u \in Thread : Doomed(u)' => job'[u].file \in Dispensable'
  BY <1>0, <1>2, <1>3 DEF Owners, Dispensable
<1>7. published' \subseteq minted'
  BY <1>0, <1>p DEF Owners
<1>8. OriginatorKeeps'
  <2>1. CASE job[t].op = "own"
    <3>1. f \in disk
      BY <1>p, <2>1 DEF Owners
    <3>2. /\ meta'["own"] = meta["own"] \cup {f} /\ published' = published \cup {f}
          /\ disk' = disk /\ withdrawn' = withdrawn
      BY <1>0, <1>m, <2>1
    <3>3. published \ withdrawn \subseteq disk \cap meta["own"]
      BY DEF Owners, OriginatorKeeps
    <3> HIDE DEF f
    <3> QED BY <3>1, <3>2, <3>3 DEF OriginatorKeeps
  <2>2. CASE job[t].op = "delete"
    <3>1. f \notin published \ withdrawn
      BY <1>0, <1>q, <2>2 DEF Dispensable
    <3> QED BY <1>0, <1>m, <2>2, <3>1 DEF Owners, OriginatorKeeps
  <2>3. CASE job[t].op \notin {"own", "delete"}
    BY <1>0, <1>m, <2>3 DEF Owners, OriginatorKeeps
  <2> QED BY <2>1, <2>2, <2>3
<1> QED BY <1>4, <1>5, <1>6, <1>7, <1>8 DEF Owners

\* One thread goes on, to a step that publishes nothing.
LEMMA MoveKeepsOwners ==
  ASSUME Basis, Basis', Owners, UNCHANGED <<meta, minted, published>>,
         withdrawn \subseteq withdrawn', disk \ disk' \subseteq Dispensable',
         NEW t \in Thread, \A u \in Thread \ {t} : job'[u] = job[u],
         Publishes(t)' => Publishes(t) /\ job'[t].file = job[t].file,
         Doomed(t)' => job'[t].file \in Dispensable'
  PROVE  Owners'
<1>1. \A u \in Thread \ {t} : Publishes(u)' => Publishes(u) /\ job'[u].file = job[u].file
  BY DEF Publishes, Unrecorded
<1>2. \A u \in Thread \ {t} : Doomed(u)' => job'[u].file \in Dispensable'
  <2>1. \A u \in Thread \ {t} : Doomed(u)' => Doomed(u) /\ job'[u].file = job[u].file
    BY DEF Doomed, Unrecorded, At
  <2>2. Dispensable \subseteq Dispensable'
    BY DEF Dispensable
  <2> QED BY <2>1, <2>2 DEF Owners
<1> QED BY <1>1, <1>2, OwnersKept

LEMMA RemovalKeepsOwners ==
  ASSUME Basis, Basis', Owners, UNCHANGED <<minted, published>>, withdrawn \subseteq withdrawn',
         NEW t \in Thread, NEW f \in Dispensable', f \in File, RemoveFile(t, f)
  PROVE  Owners'
<1>0. /\ job \in [Thread -> Job] /\ "lock" \in Pc /\ "delete" \in Op /\ meta' = meta
      /\ disk \ disk' \subseteq {f}
  BY DEF Basis, TypeOK, Pc, Op, RemoveFile
<1>1. CASE Goes(t, "lock", "delete", f)
  <2>1. /\ job'[t].op = "delete" /\ job'[t].file = f
        /\ \A u \in Thread \ {t} : job'[u] = job[u]
    BY <1>0, <1>1, GoesShape
  <2>2. ~Publishes(t)'
    BY <2>1 DEF Publishes
  <2> QED BY <1>0, <2>1, <2>2, MoveKeepsOwners
<1>2. CASE Rests(t)
  <2>1. job'[t].pc = "idle" /\ \A u \in Thread \ {t} : job'[u] = job[u]
    BY <1>0, <1>2, RestsShape
  <2>2. ~Publishes(t)' /\ ~Doomed(t)'
    BY <2>1 DEF Publishes, Doomed, Unrecorded, At
  <2> QED BY <1>0, <2>1, <2>2, MoveKeepsOwners
<1> QED BY <1>1, <1>2 DEF RemoveFile

\* One step for each action.
LEMMA OwnersNext == Basis /\ Basis' /\ Owners /\ [Next]_vars => Owners'
<1> USE StorageAssumption DEF history
<1> SUFFICES ASSUME Basis, Basis', Owners, [Next]_vars PROVE Owners'
  OBVIOUS
<1>p. /\ {"lock", "evict", "room", "await", "have"} \subseteq Pc
      /\ {"idle", "settle", "expire", "evict", "replica", "temporary"} \subseteq Op
      /\ NoFile \in File \cup {NoFile} /\ Recv \in Thread /\ Sched \in Thread
      /\ Web \subseteq Thread
  BY DEF Pc, Op, Thread
<1>j. job \in [Thread -> Job]
  BY DEF Basis, TypeOK
<1>l. \A f \in Listed : f \in withdrawn \cup ({f} \cap Own) \cup (File \ Own)
  BY DEF Listed, Owners, Basis, TypeOK
<1>g. ASSUME NEW t \in Thread, NEW pc \in Pc, NEW op \in Op \ {"own"},
             NEW f \in File \cup {NoFile}, Goes(t, pc, op, f),
             pc = "evict" \/ op = "delete" => f \in Dispensable',
             UNCHANGED <<meta, minted, published, withdrawn>>, disk \subseteq disk'
      PROVE  Owners'
  <2>1. /\ job'[t].pc = pc /\ job'[t].op = op /\ job'[t].file = f
        /\ \A u \in Thread \ {t} : job'[u] = job[u]
    BY <1>g, <1>j, GoesShape
  <2>2. ~Publishes(t)'
    BY <2>1 DEF Publishes
  <2>3. Doomed(t)' => job'[t].file \in Dispensable'
    BY <1>g, <2>1 DEF Doomed, At
  <2> QED BY <1>g, <2>1, <2>2, <2>3, MoveKeepsOwners
<1>r. ASSUME NEW t \in Thread, Rests(t), UNCHANGED <<meta, minted, published, withdrawn>>,
             disk \subseteq disk'
      PROVE  Owners'
  <2>1. job'[t].pc = "idle" /\ \A u \in Thread \ {t} : job'[u] = job[u]
    BY <1>r, <1>j, RestsShape
  <2>2. ~Publishes(t)' /\ ~Doomed(t)'
    BY <2>1 DEF Publishes, Doomed, Unrecorded, At
  <2> QED BY <1>r, <2>1, <2>2, MoveKeepsOwners
<1>s. ASSUME UNCHANGED <<job, disk, meta, minted, published, withdrawn>> PROVE Owners'
  BY <1>s DEF Owners, Publishes, Doomed, Unrecorded, At, Dispensable, OriginatorKeeps
<1>k. ASSUME NEW t \in Thread, job[t].pc \in {"lock", "save"}, job'[t].pc \in {"save", "write"},
             job'[t].op = job[t].op, job'[t].file = job[t].file,
             \A u \in Thread \ {t} : job'[u] = job[u],
             UNCHANGED <<disk, meta, minted, published, withdrawn>>
      PROVE  Owners'
  <2>1. Publishes(t)' => Publishes(t) /\ job'[t].file = job[t].file
    BY <1>k DEF Publishes, Unrecorded
  <2>2. Doomed(t)' => job'[t].file \in Dispensable'
    BY <1>k DEF Doomed, Unrecorded, At, Owners, Dispensable
  <2> QED BY <1>k, <2>1, <2>2, MoveKeepsOwners
<1>1. ASSUME NEW t \in Thread, Load(t) PROVE Owners'
  <2>1. CASE Rests(t)
    BY <1>1, <2>1, <1>r DEF Load
  <2>2. CASE \E b : job' = [job EXCEPT ![t].pc = "save", ![t].book = b]
    <3>1. /\ job[t].pc = "lock" /\ job'[t].pc = "save" /\ job[t] \in Job
          /\ \A u \in Thread \ {t} : job'[u] = job[u]
          /\ job'[t].op = job[t].op /\ job'[t].file = job[t].file
      BY <1>1, <2>2, <1>j DEF Load, At, Job
    <3> QED BY <1>1, <3>1, <1>k DEF Load
  <2> QED BY <1>1, <2>1, <2>2 DEF Load
<1>2. ASSUME NEW t \in Thread, LoadFails(t) PROVE Owners'
  BY <1>2, <1>r DEF LoadFails
<1>3. ASSUME NEW t \in Thread, Truncate(t) PROVE Owners'
  <2>1. /\ job[t].pc = "save" /\ job'[t].pc = "write" /\ job[t] \in Job
        /\ \A u \in Thread \ {t} : job'[u] = job[u]
        /\ job'[t].op = job[t].op /\ job'[t].file = job[t].file
    BY <1>3, <1>j DEF Truncate, At, Job
  <2> QED BY <1>3, <2>1, <1>k DEF Truncate
<1>4. ASSUME NEW t \in Thread, Write(t) PROVE Owners'
  BY <1>4, WriteKeepsOwners
<1>5. ASSUME NEW t \in Web, NEW f \in File, Publish(t, f) PROVE Owners'
  BY <1>5, PublishKeepsOwners
<1>6. ASSUME NEW t \in Web, NEW f \in File, Withdraw(t, f) PROVE Owners'
  <2>1. RemoveFile(t, f) /\ f \in Dispensable' /\ withdrawn \subseteq withdrawn'
    BY <1>6 DEF Withdraw, Dispensable
  <2> QED BY <1>6, <2>1, <1>p, RemovalKeepsOwners DEF Withdraw
<1>7. ASSUME NEW t \in Web, NEW f \in File, CloseTab(t, f) PROVE Owners'
  BY <1>7, <1>g, <1>p DEF CloseTab
<1>8. ASSUME NEW t \in Web, NEW q \in Quotas, SetQuota(t, q) PROVE Owners'
  BY <1>8, <1>s DEF SetQuota
<1>21. ASSUME NEW t \in Web, NEW f \in File, Wish(t, f) PROVE Owners'
  BY <1>21, <1>s DEF Wish
<1>9. ASSUME NEW f \in File, CheckRoom(f) PROVE Owners'
  <2>1. /\ \A u \in Thread \ {Recv} : job'[u] = job[u]
        /\ job'[Recv].pc = "room" /\ job'[Recv].op = "room"
    BY <1>9, <1>j, <1>p DEF CheckRoom
  <2>2. ~Publishes(Recv)' /\ ~Doomed(Recv)'
    BY <2>1 DEF Publishes, Doomed, Unrecorded, At
  <2> QED BY <1>9, <2>1, <2>2, <1>p, MoveKeepsOwners DEF CheckRoom
<1>10. CASE Accept
  BY <1>10, <1>r, <1>p DEF Accept
<1>11. ASSUME NEW f \in File, Complete(f) PROVE Owners'
  BY <1>11, <1>g, <1>p DEF Complete, StoreFile
<1>12. ASSUME NEW f \in File, OnDelete(f) PROVE Owners'
  <2>1. RemoveFile(Recv, f) /\ f \in Dispensable' /\ withdrawn \subseteq withdrawn'
    BY <1>12, <1>l DEF OnDelete, Dispensable
  <2> QED BY <1>12, <2>1, <1>p, RemovalKeepsOwners DEF OnDelete
<1>13. ASSUME NEW f \in File, Solicit(f) PROVE Owners'
  BY <1>13, <1>g, <1>s, <1>p DEF Solicit
<1>14. CASE Fetch
  <2>1. job[Sched].file \in File
    BY <1>14, <1>p DEF Fetch, At, Basis, Aimed
  <2> QED BY <1>14, <2>1, <1>g, <1>r, <1>p DEF Fetch
<1>15. CASE StoreReplica
  <2>1. job[Sched].file \in File
    BY <1>15, <1>p DEF StoreReplica, At, Basis, Aimed
  <2> QED BY <1>15, <2>1, <1>g, <1>p DEF StoreReplica, StoreFile
<1>16. CASE CleanUpExpired
  BY <1>16, <1>g, <1>p DEF CleanUpExpired
<1>17. ASSUME NEW f \in File, Select(f) PROVE Owners'
  <2>1. f \in Dispensable /\ withdrawn' = withdrawn
    BY <1>17 DEF Select, Listed, Dispensable, Owners, OriginatorKeeps
  <2>2. f \in Dispensable'
    BY <2>1 DEF Dispensable
  <2> QED BY <1>17, <2>2, <1>g, <1>p DEF Select
<1>18. CASE Evict
  <2>1. /\ RemoveFile(Sched, job[Sched].file) /\ withdrawn' = withdrawn
        /\ job[Sched].file \in Dispensable /\ job[Sched].file \in File
    BY <1>18, <1>p DEF Evict, At, Owners, Doomed, Basis, Aimed
  <2>2. job[Sched].file \in Dispensable'
    BY <2>1 DEF Dispensable
  <2> QED BY <1>18, <2>1, <2>2, <1>p, RemovalKeepsOwners DEF Evict
<1>19. CASE Crash
  <2>1. \A u \in Thread : job'[u].pc = "idle"
    BY <1>19 DEF Crash, Idle
  <2>2. \A u \in Thread : ~Publishes(u)' /\ ~Doomed(u)'
    BY <2>1 DEF Publishes, Doomed, Unrecorded, At
  <2> QED BY <1>19, <2>2, OwnersKept DEF Crash
<1>20. CASE UNCHANGED vars
  BY <1>20, <1>s DEF vars
<1> QED
  BY <1>1, <1>2, <1>3, <1>4, <1>5, <1>6, <1>7, <1>8, <1>9, <1>10, <1>11, <1>12, <1>13,
     <1>14, <1>15, <1>16, <1>17, <1>18, <1>19, <1>20, <1>21 DEF Next

\* What the author has published and not deleted stays on the disk and on the
\* list of own files, whatever crashes and whatever rebalancing selects.
THEOREM OriginatorKeepsHolds == Spec => []OriginatorKeeps
<1>1. Init => Owners
  <2> SUFFICES ASSUME Init PROVE Owners
    OBVIOUS
  <2>1. \A t \in Thread : job[t].pc = "idle"
    BY DEF Init, Idle
  <2> QED BY <2>1 DEF Init, Owners, Publishes, Doomed, Unrecorded, At, OriginatorKeeps
<1>2. Owners => OriginatorKeeps
  BY DEF Owners
<1> QED BY BasisInit, BasisNext, OwnersNext, <1>1, <1>2, PTL DEF Spec

-----------------------------------------------------------------------------
(* The disk and the metadata *)

\* Thread t is about to record what it has done to f.
Records(t, f) == Unrecorded(t) /\ job[t].file = f

\* A file that nothing has upset is recorded by one thread at a time, which has
\* just stored or removed it; when there is none, disk and metadata agree.
Agree ==
  \A f \in File \ stray :
    /\ \A t, u \in Thread : Records(t, f) /\ Records(u, f) => t = u
    /\ \A t \in Thread : Records(t, f) => (f \in disk <=> job[t].op # "delete")
    /\ (\A t \in Thread : ~Records(t, f)) => (f \in disk <=> f \in RecordedIn(meta))

\* Steps that neither touch the disk or the metadata nor begin or end the
\* recording of a file, unless they upset it.
LEMMA AgreeKept ==
  ASSUME Agree, UNCHANGED <<disk, meta>>, stray \subseteq stray',
         \A u \in Thread, f \in File \ stray' : Records(u, f)' <=> Records(u, f),
         \A u \in Thread, f \in File \ stray' : Records(u, f) => job'[u].op = job[u].op
  PROVE  Agree'
BY DEF Agree, RecordedIn

\* The same for a single thread that has nothing to record before and after.
LEMMA MoveKeepsAgree ==
  ASSUME Agree, UNCHANGED <<disk, meta, stray>>,
         NEW t \in Thread, \A u \in Thread \ {t} : job'[u] = job[u],
         ~Unrecorded(t), ~Unrecorded(t)'
  PROVE  Agree'
<1>1. \A u \in Thread \ {t}, f \in File : Records(u, f)' <=> Records(u, f)
  BY DEF Records, Unrecorded
<1>2. \A f \in File : ~Records(t, f) /\ ~Records(t, f)'
  BY DEF Records
<1> QED BY <1>1, <1>2, AgreeKept

\* A thread stores or removes f: it is the one that records f, or f is upset.
LEMMA TouchKeepsAgree ==
  ASSUME Agree, Basis, NEW t \in Thread, NEW f \in File, NEW op \in Op, ~Unrecorded(t),
         Goes(t, "lock", op, f), op \in {"own", "replica", "temporary", "delete"},
         disk' = IF op = "delete" THEN disk \ {f} ELSE disk \cup {f},
         meta' = meta, stray' = Upset(t, f)
  PROVE  Agree'
<1>1. /\ job'[t].pc = "lock" /\ job'[t].op = op /\ job'[t].file = f
      /\ \A u \in Thread \ {t} : job'[u] = job[u]
  <2>1. job \in [Thread -> Job] /\ "lock" \in Pc
    BY DEF Basis, TypeOK, Pc
  <2> QED BY <2>1, GoesShape
<1>2. \A u \in Thread \ {t}, g \in File : Records(u, g)' <=> Records(u, g)
  BY <1>1 DEF Records, Unrecorded
<1>3. Records(t, f)' /\ \A g \in File \ {f} : ~Records(t, g)'
  BY <1>1 DEF Records, Unrecorded
<1>4. \A g \in File : ~Records(t, g)
  BY DEF Records
<1>5. f \notin stray' => \A u \in Thread \ {t} : ~Records(u, f)
  BY DEF Upset, Overlaps, Records
<1>6. stray \subseteq stray'
  BY DEF Upset
<1>7. RecordedIn(meta)' = RecordedIn(meta)
  BY DEF RecordedIn
<1> SUFFICES ASSUME NEW g \in File \ stray'
             PROVE  /\ \A u, v \in Thread : Records(u, g)' /\ Records(v, g)' => u = v
                    /\ \A u \in Thread : Records(u, g)' => (g \in disk' <=> job'[u].op # "delete")
                    /\ (\A u \in Thread : ~Records(u, g)') =>
                         (g \in disk' <=> g \in RecordedIn(meta)')
  BY DEF Agree
<1>8. CASE g = f
  BY <1>1, <1>2, <1>3, <1>5, <1>8
<1>9. CASE g # f
  <2>1. \A u \in Thread : Records(u, g)' <=> Records(u, g)
    BY <1>2, <1>3, <1>4, <1>9
  <2>2. \A u \in Thread : Records(u, g) => job'[u].op = job[u].op
    BY <1>1, <1>4
  <2>3. g \in disk' <=> g \in disk
    BY <1>9
  <2> QED BY <2>1, <2>2, <2>3, <1>6, <1>7 DEF Agree
<1> QED BY <1>8, <1>9

\* Write records the thread's own file; an expiry or a promotion records what
\* was recorded.
LEMMA WriteKeepsAgree ==
  ASSUME Agree, Basis, NEW t \in Thread, Write(t)
  PROVE  Agree'
<1> DEFINE f == job[t].file
           op == job[t].op
<1>0. /\ job[t].pc = "write" /\ op \in Modifying /\ (op # "expire" => f \in File)
      /\ disk' = disk /\ stray' = stray /\ meta \in Meta
  BY WriteKeepsBasis DEF Write, At, Basis, TypeOK
<1>1. job'[t].pc = "idle" /\ \A u \in Thread \ {t} : job'[u] = job[u]
  <2>1. job \in [Thread -> Job] /\ Rests(t)
    BY DEF Write, Basis, TypeOK
  <2> QED BY <2>1, RestsShape
<1>2. \A u \in Thread \ {t}, g \in File :
        (Records(u, g)' <=> Records(u, g)) /\ job'[u].op = job[u].op
  BY <1>1 DEF Records, Unrecorded
<1>3. \A g \in File : ~Records(t, g)'
  BY <1>1 DEF Records, Unrecorded
<1>4. /\ op \in {"own", "replica", "temporary"} => RecordedIn(meta)' = RecordedIn(meta) \cup {f}
      /\ op = "delete" => RecordedIn(meta)' = RecordedIn(meta) \ {f}
      /\ op \in {"settle", "expire"} => RecordedIn(meta)' = RecordedIn(meta)
  <2>1. PICK S \in SUBSET meta["temporary"] : meta' = Modified(meta, op, f, S)
    BY WriteKeepsBasis
  <2>2. RecordedIn(meta)' = RecordedIn(Modified(meta, op, f, S))
    BY <2>1 DEF RecordedIn
  <2>3. LET b == Modified(meta, op, f, S) IN
        /\ op \in {"own", "replica", "temporary"} => RecordedIn(b) = RecordedIn(meta) \cup {f}
        /\ op = "delete" => RecordedIn(b) = RecordedIn(meta) \ {f}
        /\ op \in {"settle", "expire"} => RecordedIn(b) = RecordedIn(meta)
    <3> HIDE DEF op, f
    <3> QED BY <1>0, ModifiedFacts
  <2> QED BY <2>2, <2>3
<1>5. op \in {"own", "replica", "temporary", "delete"} => \A g \in File : Records(t, g) <=> g = f
  BY <1>0 DEF Records, Unrecorded
<1>6. op \in {"settle", "expire"} => \A g \in File : ~Records(t, g)
  BY DEF Records, Unrecorded
<1> SUFFICES ASSUME NEW g \in File \ stray
             PROVE  /\ \A u, v \in Thread : Records(u, g)' /\ Records(v, g)' => u = v
                    /\ \A u \in Thread : Records(u, g)' => (g \in disk <=> job'[u].op # "delete")
                    /\ (\A u \in Thread : ~Records(u, g)') =>
                         (g \in disk <=> g \in RecordedIn(meta)')
  BY <1>0 DEF Agree
<1>7. \A u, v \in Thread : Records(u, g)' /\ Records(v, g)' => u = v
  BY <1>2, <1>3 DEF Agree
<1>8. \A u \in Thread : Records(u, g)' => (g \in disk <=> job'[u].op # "delete")
  BY <1>2, <1>3 DEF Agree
<1>9. ASSUME \A u \in Thread : ~Records(u, g)' PROVE g \in disk <=> g \in RecordedIn(meta)'
  <2>1. \A u \in Thread \ {t} : ~Records(u, g)
    BY <1>9, <1>2
  <2>2. CASE Records(t, g)
    <3>1. g = f /\ op \in {"own", "replica", "temporary", "delete"}
      BY <2>2 DEF Records, Unrecorded
    <3>2. g \in disk <=> op # "delete"
      BY <2>2 DEF Agree
    <3> QED BY <3>1, <3>2, <1>4
  <2>3. CASE ~Records(t, g)
    <3>1. g \in disk <=> g \in RecordedIn(meta)
      BY <2>1, <2>3 DEF Agree
    <3>2. op \in {"settle", "expire"} \/ g # f
      BY <1>0, <1>5, <2>3 DEF Modifying
    <3>3. g \in RecordedIn(meta)' <=> g \in RecordedIn(meta)
      BY <1>0, <1>4, <3>2 DEF Modifying
    <3> QED BY <3>1, <3>3
  <2> QED BY <2>2, <2>3
<1> QED BY <1>7, <1>8, <1>9

\* One step for each action.
LEMMA AgreeNext == Basis /\ Agree /\ [Next]_vars => Agree'
<1> USE StorageAssumption DEF history
<1> SUFFICES ASSUME Basis, Agree, [Next]_vars PROVE Agree'
  OBVIOUS
<1>p. /\ {"lock", "evict", "room", "await", "have"} \subseteq Pc
      /\ {"idle", "own", "settle", "expire", "evict", "replica", "temporary", "delete"} \subseteq Op
      /\ NoFile \in File \cup {NoFile} /\ Recv \in Thread /\ Sched \in Thread
      /\ Web \subseteq Thread
  BY DEF Pc, Op, Thread
<1>j. job \in [Thread -> Job]
  BY DEF Basis, TypeOK
<1>n. \A t \in Thread : Begins(t) => ~Unrecorded(t)
  BY DEF Begins, At, Unrecorded
<1>g. ASSUME NEW t \in Thread, NEW pc \in Pc, NEW op \in Op, NEW f \in File \cup {NoFile},
             Goes(t, pc, op, f), pc # "lock" \/ op \in {"settle", "expire"},
             pc \notin {"save", "write"}, ~Unrecorded(t), UNCHANGED <<disk, meta, stray>>
      PROVE  Agree'
  <2>1. /\ job'[t].pc = pc /\ job'[t].op = op
        /\ \A u \in Thread \ {t} : job'[u] = job[u]
    BY <1>g, <1>j, GoesShape
  <2>2. ~Unrecorded(t)'
    BY <1>g, <2>1 DEF Unrecorded
  <2> QED BY <1>g, <2>1, <2>2, MoveKeepsAgree
<1>r. ASSUME NEW t \in Thread, Rests(t), ~Unrecorded(t), UNCHANGED <<disk, meta, stray>>
      PROVE  Agree'
  <2>1. job'[t].pc = "idle" /\ \A u \in Thread \ {t} : job'[u] = job[u]
    BY <1>r, <1>j, RestsShape
  <2>2. ~Unrecorded(t)'
    BY <2>1 DEF Unrecorded
  <2> QED BY <1>r, <2>1, <2>2, MoveKeepsAgree
<1>s. ASSUME UNCHANGED <<job, disk, meta, stray>> PROVE Agree'
  BY <1>s DEF Agree, Records, Unrecorded, RecordedIn
<1>k. ASSUME NEW t \in Thread, job[t].pc \in {"lock", "save"}, job'[t].pc \in {"save", "write"},
             job'[t].op = job[t].op, job'[t].file = job[t].file,
             \A u \in Thread \ {t} : job'[u] = job[u],
             UNCHANGED <<disk, meta, stray>>
      PROVE  Agree'
  <2>1. \A u \in Thread, f \in File :
          (Records(u, f)' <=> Records(u, f)) /\ job'[u].op = job[u].op
    BY <1>k DEF Records, Unrecorded
  <2> QED BY <1>k, <2>1, AgreeKept
<1>a. ASSUME NEW t \in Thread, NEW f \in File, RemoveFile(t, f), ~Unrecorded(t) PROVE Agree'
  <2>1. CASE f \in disk
    BY <1>a, <1>p, <2>1, TouchKeepsAgree DEF RemoveFile
  <2>2. CASE f \notin disk
    BY <1>a, <1>r, <2>2 DEF RemoveFile
  <2> QED BY <2>1, <2>2
<1>b. ASSUME NEW t \in Thread, NEW f \in File, NEW op \in {"own", "replica", "temporary"},
             StoreFile(t, op, f), ~Unrecorded(t)
      PROVE  Agree'
  BY <1>b, <1>p, TouchKeepsAgree DEF StoreFile
<1>1. ASSUME NEW t \in Thread, Load(t) PROVE Agree'
  <2>1. CASE Rests(t) /\ job[t].op \in {"settle", "expire"}
    <3>1. ~Unrecorded(t)
      BY <2>1 DEF Unrecorded
    <3> QED BY <1>1, <2>1, <3>1, <1>r DEF Load
  <2>2. CASE \E b : job' = [job EXCEPT ![t].pc = "save", ![t].book = b]
    <3>1. /\ job[t].pc = "lock" /\ job'[t].pc = "save" /\ job[t] \in Job
          /\ \A u \in Thread \ {t} : job'[u] = job[u]
          /\ job'[t].op = job[t].op /\ job'[t].file = job[t].file
      BY <1>1, <2>2, <1>j DEF Load, At, Job
    <3> QED BY <1>1, <3>1, <1>k DEF Load
  <2> QED BY <1>1, <2>1, <2>2 DEF Load
<1>2. ASSUME NEW t \in Thread, LoadFails(t) PROVE Agree'
  <2>1. job'[t].pc = "idle" /\ \A u \in Thread \ {t} : job'[u] = job[u]
    BY <1>2, <1>j, RestsShape DEF LoadFails
  <2>2. \A u \in Thread, f \in File \ stray' : Records(u, f)' <=> Records(u, f)
    BY <1>2, <2>1 DEF LoadFails, Records, Unrecorded
  <2>3. \A u \in Thread, f \in File \ stray' : Records(u, f) => job'[u].op = job[u].op
    BY <1>2, <2>1 DEF LoadFails, Records
  <2>4. stray \subseteq stray' /\ UNCHANGED <<disk, meta>>
    BY <1>2 DEF LoadFails
  <2> QED BY <2>2, <2>3, <2>4, AgreeKept
<1>3. ASSUME NEW t \in Thread, Truncate(t) PROVE Agree'
  <2>1. /\ job[t].pc = "save" /\ job'[t].pc = "write" /\ job[t] \in Job
        /\ \A u \in Thread \ {t} : job'[u] = job[u]
        /\ job'[t].op = job[t].op /\ job'[t].file = job[t].file
    BY <1>3, <1>j DEF Truncate, At, Job
  <2> QED BY <1>3, <2>1, <1>k DEF Truncate
<1>4. ASSUME NEW t \in Thread, Write(t) PROVE Agree'
  BY <1>4, WriteKeepsAgree
<1>5. ASSUME NEW t \in Web, NEW f \in File, Publish(t, f) PROVE Agree'
  BY <1>5, <1>b, <1>n, <1>p DEF Publish
<1>6. ASSUME NEW t \in Web, NEW f \in File, Withdraw(t, f) PROVE Agree'
  BY <1>6, <1>a, <1>n, <1>p DEF Withdraw
<1>7. ASSUME NEW t \in Web, NEW f \in File, CloseTab(t, f) PROVE Agree'
  BY <1>7, <1>g, <1>n, <1>p DEF CloseTab
<1>8. ASSUME NEW t \in Web, NEW q \in Quotas, SetQuota(t, q) PROVE Agree'
  BY <1>8, <1>s DEF SetQuota
<1>21. ASSUME NEW t \in Web, NEW f \in File, Wish(t, f) PROVE Agree'
  BY <1>21, <1>s DEF Wish
<1>9. ASSUME NEW f \in File, CheckRoom(f) PROVE Agree'
  <2>1. /\ \A u \in Thread \ {Recv} : job'[u] = job[u]
        /\ job'[Recv].pc = "room"
    BY <1>9, <1>j, <1>p DEF CheckRoom
  <2>2. ~Unrecorded(Recv)' /\ ~Unrecorded(Recv)
    BY <1>9, <2>1, <1>n, <1>p DEF CheckRoom, Unrecorded
  <2> QED BY <1>9, <2>1, <2>2, <1>p, MoveKeepsAgree DEF CheckRoom
<1>10. CASE Accept
  <2>1. ~Unrecorded(Recv)
    BY <1>10 DEF Accept, At, Unrecorded
  <2> QED BY <1>10, <2>1, <1>r, <1>p DEF Accept
<1>11. ASSUME NEW f \in File, Complete(f) PROVE Agree'
  BY <1>11, <1>b, <1>n, <1>p DEF Complete
<1>12. ASSUME NEW f \in File, OnDelete(f) PROVE Agree'
  BY <1>12, <1>a, <1>n, <1>p DEF OnDelete
<1>13. ASSUME NEW f \in File, Solicit(f) PROVE Agree'
  <2>1. ~Unrecorded(Sched)
    BY <1>13 DEF Solicit, At, Unrecorded
  <2> QED BY <1>13, <2>1, <1>g, <1>s, <1>p DEF Solicit
<1>14. CASE Fetch
  <2>1. ~Unrecorded(Sched) /\ job[Sched].file \in File
    BY <1>14, <1>p DEF Fetch, At, Unrecorded, Basis, Aimed
  <2> QED BY <1>14, <2>1, <1>g, <1>r, <1>p DEF Fetch
<1>15. CASE StoreReplica
  <2>1. ~Unrecorded(Sched) /\ job[Sched].file \in File
    BY <1>15, <1>p DEF StoreReplica, At, Unrecorded, Basis, Aimed
  <2> QED BY <1>15, <2>1, <1>b, <1>p DEF StoreReplica
<1>16. CASE CleanUpExpired
  BY <1>16, <1>g, <1>n, <1>p DEF CleanUpExpired
<1>17. ASSUME NEW f \in File, Select(f) PROVE Agree'
  BY <1>17, <1>g, <1>n, <1>p DEF Select
<1>18. CASE Evict
  <2>1. ~Unrecorded(Sched) /\ job[Sched].file \in File
    BY <1>18, <1>p DEF Evict, At, Unrecorded, Basis, Aimed
  <2> QED BY <1>18, <2>1, <1>a, <1>p DEF Evict
<1>19. CASE Crash
  <2>1. \A u \in Thread : job'[u].pc = "idle"
    BY <1>19 DEF Crash, Idle
  <2>2. \A u \in Thread, f \in File \ stray' : ~Records(u, f)' /\ ~Records(u, f)
    BY <1>19, <2>1 DEF Crash, Records, Unrecorded
  <2> QED BY <1>19, <2>2, AgreeKept DEF Crash
<1>20. CASE UNCHANGED vars
  BY <1>20, <1>s DEF vars
<1> QED
  BY <1>1, <1>2, <1>3, <1>4, <1>5, <1>6, <1>7, <1>8, <1>9, <1>10, <1>11, <1>12, <1>13,
     <1>14, <1>15, <1>16, <1>17, <1>18, <1>19, <1>20, <1>21 DEF Next

\* The disk and the metadata tell of the same files, but for those a thread is
\* about to record and those that have been upset.
THEOREM TalliesHolds == Spec => []Tallies
<1>1. Init => Agree
  <2> SUFFICES ASSUME Init PROVE Agree
    OBVIOUS
  <2>1. \A t \in Thread : job[t].pc = "idle"
    BY DEF Init, Idle
  <2>2. RecordedIn(meta) = {}
    BY DEF Init, NoMeta, RecordedIn
  <2> QED BY <2>1, <2>2 DEF Init, Agree, Records, Unrecorded
<1>2. Agree => Tallies
  BY DEF Agree, Records, Tallies
<1> QED BY BasisInit, BasisNext, AgreeNext, <1>1, <1>2, PTL DEF Spec

-----------------------------------------------------------------------------
(* The quota *)

\* Bytes are counted as one would: those of more files are no fewer, those of
\* two sets no more than those of each, and a file has its size.
LEMMA TotalFacts ==
  ASSUME IsFiniteSet(File)
  PROVE  /\ \A S \in SUBSET File : Total(S) \in Nat
         /\ \A S \in SUBSET File : \A R \in SUBSET S : Total(R) <= Total(S)
         /\ \A S, R \in SUBSET File : Total(S \cup R) <= Total(S) + Total(R)
         /\ \A f \in File : Total({f}) = Size[f]
<1> USE StorageAssumption
<1>1. \A f \in File : IsFiniteSet({f} \X (1 .. Size[f]))
                      /\ Cardinality({f} \X (1 .. Size[f])) = Size[f]
  <2> SUFFICES ASSUME NEW f \in File
               PROVE  /\ IsFiniteSet({f} \X (1 .. Size[f]))
                      /\ Cardinality({f} \X (1 .. Size[f])) = Size[f]
    OBVIOUS
  <2>1. Size[f] \in Nat
    OBVIOUS
  <2>2. IsFiniteSet(1 .. Size[f]) /\ Cardinality(1 .. Size[f]) = Size[f]
    BY <2>1, FS_Interval
  <2>3. IsFiniteSet({f}) /\ Cardinality({f}) = 1
    BY FS_Singleton
  <2>4. /\ IsFiniteSet({f} \X (1 .. Size[f]))
        /\ Cardinality({f} \X (1 .. Size[f])) = Cardinality({f}) * Cardinality(1 .. Size[f])
    BY <2>2, <2>3, FS_Product
  <2> QED BY <2>1, <2>2, <2>3, <2>4
<1>2. \A S \in SUBSET File : IsFiniteSet(Bytes(S))
  <2> SUFFICES ASSUME NEW S \in SUBSET File PROVE IsFiniteSet(Bytes(S))
    OBVIOUS
  <2> DEFINE g == [f \in S |-> {f} \X (1 .. Size[f])]
             T == {g[f] : f \in S}
  <2>1. IsFiniteSet(S)
    BY FS_Subset
  <2>2. g \in Surjection(S, T)
    BY DEF Surjection
  <2>3. IsFiniteSet(T)
    BY <2>1, <2>2, FS_Surjection
  <2>4. \A X \in T : IsFiniteSet(X)
    BY <1>1
  <2>5. Bytes(S) = UNION T
    BY DEF Bytes
  <2> QED BY <2>3, <2>4, <2>5, FS_UNION
<1>3. \A S, R \in SUBSET File : Bytes(S \cup R) = Bytes(S) \cup Bytes(R)
  BY DEF Bytes
<1>4. \A S \in SUBSET File : \A R \in SUBSET S : Bytes(R) \subseteq Bytes(S)
  BY DEF Bytes
<1>5. \A S \in SUBSET File : Total(S) \in Nat
  BY <1>2, FS_CardinalityType DEF Total
<1>6. \A S \in SUBSET File : \A R \in SUBSET S : Total(R) <= Total(S)
  BY <1>2, <1>4, FS_Subset DEF Total
<1>7. \A S, R \in SUBSET File : Total(S \cup R) <= Total(S) + Total(R)
  <2> SUFFICES ASSUME NEW S \in SUBSET File, NEW R \in SUBSET File
               PROVE  Total(S \cup R) <= Total(S) + Total(R)
    OBVIOUS
  <2>1. IsFiniteSet(Bytes(S)) /\ IsFiniteSet(Bytes(R)) /\ IsFiniteSet(Bytes(S) \cap Bytes(R))
    BY <1>2, FS_Subset
  <2>2. Cardinality(Bytes(S) \cup Bytes(R)) =
          Cardinality(Bytes(S)) + Cardinality(Bytes(R)) - Cardinality(Bytes(S) \cap Bytes(R))
    BY <2>1, FS_Union
  <2>3. /\ Cardinality(Bytes(S)) \in Nat /\ Cardinality(Bytes(R)) \in Nat
        /\ Cardinality(Bytes(S) \cap Bytes(R)) \in Nat
    BY <2>1, FS_CardinalityType
  <2>4. Bytes(S \cup R) = Bytes(S) \cup Bytes(R)
    BY <1>3
  <2>5. Total(S \cup R) = Cardinality(Bytes(S) \cup Bytes(R))
    BY <2>4 DEF Total
  <2>6. \A x, y, z \in Nat : x + y - z <= x + y
    OBVIOUS
  <2> QED BY <2>2, <2>3, <2>5, <2>6 DEF Total
<1>8. \A f \in File : Total({f}) = Size[f]
  <2>1. \A f \in File : Bytes({f}) = {f} \X (1 .. Size[f])
    BY DEF Bytes
  <2> QED BY <2>1, <1>1 DEF Total
<1> QED BY <1>5, <1>6, <1>7, <1>8

\* A file is coming when its download was accepted or is under way.
Coming(f) == f \in accepted \/ (job[Sched].pc \in {"await", "have"} /\ job[Sched].file = f)

\* There is room for the file that is coming, and but one is.
Roomy ==
  \A f \in File : Coming(f) =>
    Total(disk \cup {f}) <= quota /\ \A g \in File : Coming(g) => g = f

\* While the receive thread checks the room for a file, nothing is coming or
\* being recorded, but deletions of others, and there are no more own files.
Checked ==
  At(Recv, "room") =>
    /\ \A f \in File : ~Coming(f)
    /\ job[Recv].file \notin disk
    /\ meta["own"] \cap disk \subseteq job[Recv].book["own"]
    /\ \A t \in Thread : Unrecorded(t) => job[t].op = "delete" /\ job[t].file # job[Recv].file

Upright == ~crowded /\ stray = {}
QuotaInv == Upright => Total(disk) <= quota /\ Roomy /\ Checked

\* Steps that bring no file.
Lean ==
  /\ disk' \subseteq disk /\ quota' = quota
  /\ \A f \in File : Coming(f)' => Coming(f)

\* Steps that leave a check of the room be.
Patient ==
  At(Recv, "room")' =>
    /\ At(Recv, "room") /\ job'[Recv] = job[Recv] /\ meta'["own"] \subseteq meta["own"]
    /\ \A t \in Thread : Unrecorded(t)' =>
         \/ Unrecorded(t) /\ job'[t].op = job[t].op /\ job'[t].file = job[t].file
         \/ job'[t].op = "delete" /\ job'[t].file \in disk

LEMMA LeanKeeps ==
  ASSUME Basis, IsFiniteSet(File), Total(disk) <= quota /\ Roomy /\ Checked, Lean, Patient
  PROVE  (Total(disk) <= quota /\ Roomy /\ Checked)'
<1>t. disk \in SUBSET File /\ quota \in Nat
  BY StorageAssumption DEF Basis, TypeOK
<1>1. ASSUME NEW S \in SUBSET File, Total(disk \cup S) <= quota
      PROVE  Total(disk' \cup S) <= quota'
  <2>1. disk \cup S \in SUBSET File /\ disk' \cup S \in SUBSET (disk \cup S)
    BY <1>t DEF Lean
  <2>2. Total(disk \cup S) \in Nat /\ Total(disk' \cup S) \in Nat
    BY <2>1, TotalFacts
  <2>3. Total(disk' \cup S) <= Total(disk \cup S)
    BY <2>1, TotalFacts
  <2> QED BY <1>t, <1>1, <2>2, <2>3 DEF Lean
<1>2. Total(disk') <= quota'
  <2>1. disk \cup {} = disk /\ disk' \cup {} = disk'
    OBVIOUS
  <2>2. {} \in SUBSET File
    OBVIOUS
  <2> QED BY <1>1, <2>1, <2>2
<1>3. Roomy'
  <2> SUFFICES ASSUME NEW f \in File, Coming(f)'
               PROVE  Total(disk' \cup {f}) <= quota' /\ \A g \in File : Coming(g)' => g = f
    BY DEF Roomy
  <2>1. Total(disk \cup {f}) <= quota /\ \A g \in File : Coming(g) => g = f
    BY DEF Roomy, Lean
  <2>2. {f} \in SUBSET File
    OBVIOUS
  <2>3. Total(disk' \cup {f}) <= quota'
    BY <1>1, <2>1, <2>2
  <2> QED BY <2>1, <2>3 DEF Lean
<1>4. Checked'
  <2> SUFFICES ASSUME At(Recv, "room")' PROVE Checked'
    BY DEF Checked
  <2>1. /\ At(Recv, "room") /\ job'[Recv] = job[Recv] /\ meta'["own"] \subseteq meta["own"]
        /\ \A t \in Thread : Unrecorded(t)' =>
             \/ Unrecorded(t) /\ job'[t].op = job[t].op /\ job'[t].file = job[t].file
             \/ job'[t].op = "delete" /\ job'[t].file \in disk
    BY DEF Patient
  <2>2. /\ \A f \in File : ~Coming(f)
        /\ job[Recv].file \notin disk
        /\ meta["own"] \cap disk \subseteq job[Recv].book["own"]
        /\ \A t \in Thread : Unrecorded(t) => job[t].op = "delete" /\ job[t].file # job[Recv].file
    BY <2>1 DEF Checked
  <2>3. \A f \in File : ~Coming(f)'
    BY <2>2 DEF Lean
  <2>4. job'[Recv].file \notin disk'
    BY <2>1, <2>2 DEF Lean
  <2>5. meta'["own"] \cap disk' \subseteq job'[Recv].book["own"]
    BY <2>1, <2>2 DEF Lean
  <2>6. \A t \in Thread : Unrecorded(t)' => job'[t].op = "delete" /\ job'[t].file # job'[Recv].file
    BY <2>1, <2>2
  <2> QED BY <2>3, <2>4, <2>5, <2>6 DEF Checked
<1> QED BY <1>2, <1>3, <1>4

\* A removal brings no file, and lets a check of the room go on.
LEMMA RemovalIsLean ==
  ASSUME Basis, NEW t \in Thread, t # Recv \/ ~At(Recv, "room"), NEW f \in File,
         RemoveFile(t, f), t # Sched \/ ~(job[Sched].pc \in {"await", "have"}),
         accepted' = accepted
  PROVE  Lean /\ Patient
<1>j. /\ job \in [Thread -> Job] /\ Recv \in Thread /\ Sched \in Thread /\ disk \subseteq File
      /\ {"lock"} \subseteq Pc /\ {"delete"} \subseteq Op
  BY DEF Basis, TypeOK, Thread, Pc, Op
<1>1. /\ \A u \in Thread \ {t} : job'[u] = job[u]
      /\ \/ job'[t].pc = "idle"
         \/ job'[t].pc = "lock" /\ job'[t].op = "delete" /\ job'[t].file = f /\ f \in disk
  <2>1. CASE f \in disk
    <3>1. Goes(t, "lock", "delete", f)
      BY <2>1 DEF RemoveFile
    <3> QED BY <3>1, <2>1, <1>j, GoesShape
  <2>2. CASE f \notin disk
    <3>1. Rests(t)
      BY <2>2 DEF RemoveFile
    <3> QED BY <3>1, <1>j, RestsShape
  <2> QED BY <2>1, <2>2
<1>2. disk' \subseteq disk /\ quota' = quota /\ meta' = meta
  BY DEF RemoveFile
<1>3. \A g \in File : Coming(g)' => Coming(g)
  BY <1>1, <1>j DEF Coming
<1>4. Patient
  BY <1>1, <1>2, <1>j DEF Patient, At, Unrecorded
<1> QED BY <1>2, <1>3, <1>4 DEF Lean

\* The check of the room adds up what is on the disk.
LEMMA RoomIsEnough ==
  ASSUME Basis, Agree, IsFiniteSet(File), stray = {}, Total(disk) <= quota, Checked,
         At(Recv, "room"), HasRoom(job[Recv].file), \A t \in Thread : ~Unrecorded(t)
  PROVE  Total(disk \cup {job[Recv].file}) <= quota
<1> DEFINE f == job[Recv].file
           own == job[Recv].book["own"]
           replica == meta["replica"] \cap disk
           temporary == meta["temporary"] \cap disk
<1>t. /\ disk \in SUBSET File /\ quota \in Nat /\ meta \in Meta /\ Recv \in Thread
      /\ job \in [Thread -> Job] /\ f \in File /\ Size[f] \in Nat
  BY StorageAssumption DEF Basis, TypeOK, Thread, Aimed, At
<1>s. /\ own \in SUBSET File /\ replica \in SUBSET File /\ temporary \in SUBSET File
      /\ {f} \in SUBSET File
  BY <1>t DEF Job, Meta, Kind
<1> HIDE DEF f, own, replica, temporary
<1>1. disk \subseteq own \cup (replica \cup temporary)
  <2> SUFFICES ASSUME NEW g \in disk PROVE g \in own \cup (replica \cup temporary)
    OBVIOUS
  <2>1. \A t \in Thread : ~Records(t, g)
    BY DEF Records
  <2>2. g \in RecordedIn(meta)
    BY <2>1, <1>t DEF Agree
  <2>3. g \in meta["own"] \/ g \in meta["replica"] \/ g \in meta["temporary"]
    BY <2>2, <1>t DEF RecordedIn, Kind
  <2>4. meta["own"] \cap disk \subseteq own
    BY DEF Checked, own
  <2> QED BY <2>3, <2>4 DEF replica, temporary
<1>n. /\ Total(own) \in Nat /\ Total(replica) \in Nat /\ Total(temporary) \in Nat
      /\ Total(disk) \in Nat /\ Total(disk \cup {f}) \in Nat
  <2>1. disk \cup {f} \in SUBSET File
    BY <1>t
  <2> QED BY <2>1, <1>t, <1>s, TotalFacts
<1>2. Total(disk) <= Total(own) + (Total(replica) + Total(temporary))
  <2>0. /\ replica \cup temporary \in SUBSET File
        /\ own \cup (replica \cup temporary) \in SUBSET File
        /\ disk \in SUBSET (own \cup (replica \cup temporary))
    BY <1>s, <1>1
  <2>1. Total(disk) <= Total(own \cup (replica \cup temporary))
    BY <2>0, TotalFacts
  <2>2. Total(own \cup (replica \cup temporary)) <= Total(own) + Total(replica \cup temporary)
    BY <2>0, <1>s, TotalFacts
  <2>3. Total(replica \cup temporary) <= Total(replica) + Total(temporary)
    BY <1>s, TotalFacts
  <2>4. /\ Total(replica \cup temporary) \in Nat
        /\ Total(own \cup (replica \cup temporary)) \in Nat
    BY <2>0, TotalFacts
  <2> QED BY <2>1, <2>2, <2>3, <2>4, <1>n
<1>3. Total(disk \cup {f}) <= Total(disk) + Size[f]
  BY <1>t, <1>s, TotalFacts
<1>4. LET used == Total(own) + (Total(replica) + Total(temporary)) IN
        (IF quota > used THEN quota - used ELSE 0) >= Size[f]
  BY DEF HasRoom, Available, UsedForReplicas, f, own, replica, temporary
<1>5. Total(disk \cup {f}) <= quota
  BY <1>2, <1>3, <1>4, <1>n, <1>t
<1> QED BY <1>5 DEF f

LEMMA HeldNext ==
  ASSUME Basis, Agree, IsFiniteSet(File), Total(disk) <= quota /\ Roomy /\ Checked,
         [Next]_vars, Upright, Upright'
  PROVE  (Total(disk) <= quota /\ Roomy /\ Checked)'
<1> USE DEF history
<1>j. /\ job \in [Thread -> Job] /\ Recv \in Thread /\ Sched \in Thread /\ Recv # Sched
      /\ Web \subseteq Thread /\ Recv \notin Web /\ Sched \notin Web
      /\ disk \in SUBSET File /\ quota \in Nat /\ meta \in Meta /\ accepted \subseteq File
      /\ NoFile \in File \cup {NoFile} /\ NoFile \notin File
  BY StorageAssumption DEF Basis, TypeOK, Thread
<1>p. /\ {"lock", "evict", "room", "await", "have"} \subseteq Pc
      /\ {"idle", "own", "settle", "expire", "evict", "replica", "temporary", "delete"} \subseteq Op
  BY DEF Pc, Op
<1>n. \A t \in Thread : Begins(t) => job[t].pc = "idle"
  BY DEF Begins, At
<1>k. Lean /\ Patient => (Total(disk) <= quota /\ Roomy /\ Checked)'
  BY LeanKeeps
<1>o. OnTheirWay = {} =>
        /\ accepted = {} /\ ~(job[Sched].pc \in {"await", "have"}) /\ ~At(Recv, "room")
        /\ \A t \in Thread : ~Unrecorded(t)
  BY <1>j DEF OnTheirWay, At
\* What is stored beside the check, as long as all is well, is all that comes.
<1>b. ASSUME NEW S \in SUBSET File, NEW q \in Nat, crowded' = Beside(S, q)
      PROVE  OnTheirWay = {} /\ Total(disk \cup S) <= q
  <2>1. disk \cup S \in SUBSET File
    BY <1>j
  <2>2. Total(disk \cup S) \in Nat
    BY <2>1, TotalFacts
  <2>3. ~(Total(disk \cup S) > q) /\ OnTheirWay = {}
    BY <1>b, Zenon DEF Upright, Beside
  <2> QED BY <2>2, <2>3
<1>g. ASSUME NEW t \in Thread, ~At(t, "room") \/ t # Recv,
             UNCHANGED <<disk, quota, accepted>>, job'[t].pc \notin {"room", "await", "have"},
             \A u \in Thread \ {t} : job'[u] = job[u],
             meta'["own"] \subseteq meta["own"] \/ ~At(Recv, "room"),
             Unrecorded(t)' => Unrecorded(t) /\ job'[t].op = job[t].op /\ job'[t].file = job[t].file
      PROVE  Lean /\ Patient
  <2>1. Lean
    BY <1>g, <1>j DEF Lean, Coming
  <2>2. Patient
    BY <1>g, <1>j DEF Patient, At, Unrecorded
  <2> QED BY <2>1, <2>2
<1>1. ASSUME NEW t \in Thread, Load(t) \/ LoadFails(t) \/ Truncate(t)
      PROVE  Lean /\ Patient
  <2>1. /\ job[t].pc \in {"lock", "save"} /\ job'[t].pc \in {"idle", "save", "write"}
        /\ \A u \in Thread \ {t} : job'[u] = job[u]
        /\ job'[t].pc # "idle" => job'[t].op = job[t].op /\ job'[t].file = job[t].file
    <3>1. CASE Rests(t)
      BY <1>1, <3>1, <1>j, RestsShape DEF Load, LoadFails, Truncate, At
    <3>2. CASE \E b : job' = [job EXCEPT ![t].pc = "save", ![t].book = b]
      <4>1. job[t] \in Job /\ job[t].pc \in {"lock", "save"}
        BY <1>1, <1>j DEF Load, LoadFails, Truncate, At
      <4>2. PICK b : job' = [job EXCEPT ![t].pc = "save", ![t].book = b]
        BY <3>2
      <4>3. job'[t] = [job[t] EXCEPT !.pc = "save", !.book = b]
        BY <4>2, <1>j
      <4> QED BY <4>1, <4>2, <4>3, <1>j DEF Job
    <3>3. CASE Truncate(t)
      <4>1. job[t] \in Job
        BY <1>j
      <4> QED BY <3>3, <4>1, <1>j DEF Truncate, At, Job
    <3> QED BY <1>1, <3>1, <3>2, <3>3 DEF Load, LoadFails
  <2>2. UNCHANGED <<disk, quota, accepted, meta>>
    BY <1>1 DEF Load, LoadFails, Truncate
  <2>3. Unrecorded(t)' => Unrecorded(t) /\ job'[t].op = job[t].op /\ job'[t].file = job[t].file
    BY <2>1 DEF Unrecorded
  <2> QED BY <2>1, <2>2, <2>3, <1>g DEF At
<1>2. ASSUME NEW t \in Thread, Write(t) PROVE Lean /\ Patient
  <2>1. /\ job[t].pc = "write" /\ job'[t].pc = "idle" /\ UNCHANGED <<disk, quota, accepted>>
        /\ \A u \in Thread \ {t} : job'[u] = job[u]
    BY <1>2, <1>j, RestsShape DEF Write, At
  <2>2. PICK S \in SUBSET meta["temporary"] : meta' = Modified(meta, job[t].op, job[t].file, S)
    BY <1>2, WriteKeepsBasis
  <2>3. job[t].op \in Modifying /\ (job[t].op # "expire" => job[t].file \in File)
    BY <1>2, WriteKeepsBasis
  <2>4. job[t].op # "own" => meta'["own"] \subseteq meta["own"]
    BY <2>2, <2>3, <1>j, ModifiedFacts
  <2>5. job[t].op = "own" => ~At(Recv, "room")
    BY <2>1 DEF Checked, Unrecorded
  <2> QED BY <2>1, <2>4, <2>5, <1>g DEF At, Unrecorded
<1>3. ASSUME NEW t \in Web, NEW f \in File, Publish(t, f)
      PROVE  (Total(disk) <= quota /\ Roomy /\ Checked)'
  <2>1. OnTheirWay = {} /\ Total(disk \cup {f}) <= quota
    <3>1. {f} \in SUBSET File /\ quota \in Nat /\ crowded' = Beside({f}, quota)
      BY <1>3, <1>j, StorageAssumption DEF Publish
    <3> QED BY <3>1, <1>b
  <2>2. /\ disk' = disk \cup {f} /\ quota' = quota /\ accepted' = accepted
        /\ \A u \in Thread \ {t} : job'[u] = job[u]
    BY <1>3, <1>j, <1>p, GoesShape DEF Publish, StoreFile
  <2> QED BY <2>1, <2>2, <1>o, <1>j DEF Roomy, Coming, Checked, At
<1>4. ASSUME NEW t \in Web, NEW f \in File, Withdraw(t, f) PROVE Lean /\ Patient
  BY <1>4, <1>j, RemovalIsLean DEF Withdraw
<1>5. ASSUME NEW t \in Web, NEW f \in File, CloseTab(t, f) PROVE Lean /\ Patient
  <2>1. /\ job'[t].pc = "lock" /\ job'[t].op = "settle"
        /\ \A u \in Thread \ {t} : job'[u] = job[u]
    BY <1>5, <1>j, <1>p, GoesShape DEF CloseTab
  <2>2. t \in Thread /\ t # Recv
    BY <1>j
  <2>3. UNCHANGED <<disk, quota, accepted, meta>>
    BY <1>5 DEF CloseTab
  <2>4. ~Unrecorded(t)'
    BY <2>1 DEF Unrecorded
  <2> QED BY <2>1, <2>2, <2>3, <2>4, <1>g
<1>6. ASSUME NEW t \in Web, NEW q \in Quotas, SetQuota(t, q)
      PROVE  (Total(disk) <= quota /\ Roomy /\ Checked)'
  <2>1. OnTheirWay = {} /\ Total(disk \cup {}) <= q
    <3>1. {} \in SUBSET File /\ q \in Nat /\ crowded' = Beside({}, q)
      BY <1>6, <1>j, StorageAssumption DEF SetQuota
    <3> QED BY <3>1, <1>b
  <2>2. /\ disk' = disk /\ quota' = q /\ accepted' = accepted /\ job' = job
        /\ disk \cup {} = disk
    BY <1>6 DEF SetQuota
  <2> QED BY <2>1, <2>2, <1>o, <1>j DEF Roomy, Coming, Checked, At
<1>7. ASSUME NEW t \in Web, NEW f \in File, Wish(t, f)
      PROVE  (Total(disk) <= quota /\ Roomy /\ Checked)'
  <2>1. OnTheirWay = {} /\ Total(disk \cup {f}) <= quota
    <3>1. {f} \in SUBSET File /\ quota \in Nat /\ crowded' = Beside({f}, quota)
      BY <1>7, <1>j, StorageAssumption DEF Wish
    <3> QED BY <3>1, <1>b
  <2>2. disk' = disk /\ quota' = quota /\ accepted' = accepted \cup {f} /\ job' = job
    BY <1>7 DEF Wish
  <2>3. \A g \in File : Coming(g)' => g = f
    BY <2>1, <2>2, <1>o DEF Coming
  <2>4. Roomy'
    BY <2>1, <2>2, <2>3 DEF Roomy
  <2> QED BY <2>1, <2>2, <2>4, <1>o DEF Checked, At
<1>8. ASSUME NEW f \in File, CheckRoom(f) PROVE (Total(disk) <= quota /\ Roomy /\ Checked)'
  <2>1. OnTheirWay = {}
    BY <1>8 DEF CheckRoom, Upright
  <2>2. /\ disk' = disk /\ quota' = quota /\ accepted' = accepted /\ meta' = meta
        /\ f \notin disk
        /\ \A u \in Thread \ {Recv} : job'[u] = job[u]
        /\ job'[Recv].pc = "room" /\ job'[Recv].file = f
        /\ job'[Recv].book["own"] = meta["own"] \cap disk
    <3>1. job'[Recv] = [pc |-> "room", op |-> "room", file |-> f,
                        book |-> [NoMeta EXCEPT !["own"] = meta["own"] \cap disk]]
      BY <1>8, <1>j DEF CheckRoom
    <3>2. [NoMeta EXCEPT !["own"] = meta["own"] \cap disk]["own"] = meta["own"] \cap disk
      BY DEF NoMeta, Kind
    <3> QED BY <1>8, <3>1, <3>2, <1>j DEF CheckRoom
  <2>3. \A g \in File : ~Coming(g)'
    BY <2>1, <2>2, <1>o, <1>j DEF Coming
  <2>4. \A t \in Thread : ~Unrecorded(t)'
    BY <2>1, <2>2, <1>o DEF Unrecorded
  <2> QED BY <2>2, <2>3, <2>4 DEF Roomy, Checked
<1>9. CASE Accept
  <2>1. /\ disk' = disk /\ quota' = quota /\ At(Recv, "room") /\ job'[Recv].pc = "idle"
        /\ \A u \in Thread \ {Recv} : job'[u] = job[u]
    BY <1>9, <1>j, RestsShape DEF Accept
  <2>2. ~At(Recv, "room")' /\ ~(job'[Recv].pc \in {"await", "have"})
    BY <2>1 DEF At
  <2>3. CASE readable /\ HasRoom(job[Recv].file)
    <3>1. /\ accepted' = accepted \cup {job[Recv].file} /\ OnTheirWay = {job[Recv].file}
      BY <1>9, <2>3 DEF Accept, Upright
    <3>2. \A t \in Thread : ~Unrecorded(t)
      <4> SUFFICES ASSUME NEW t \in Thread, Unrecorded(t) PROVE FALSE
        OBVIOUS
      <4>1. job[t].file \in OnTheirWay
        BY DEF OnTheirWay
      <4> QED BY <4>1, <3>1, <2>1 DEF Checked
    <3>3. Total(disk \cup {job[Recv].file}) <= quota
      BY <2>1, <2>3, <3>2, RoomIsEnough DEF Upright
    <3>4. \A g \in File : Coming(g)' => g = job[Recv].file
      BY <2>1, <3>1, <1>j DEF Checked, Coming
    <3>5. Roomy'
      BY <2>1, <3>3, <3>4 DEF Roomy
    <3> QED BY <2>1, <2>2, <3>5 DEF Checked
  <2>4. CASE ~(readable /\ HasRoom(job[Recv].file))
    <3>1. accepted' = accepted
      BY <1>9, <2>4 DEF Accept
    <3>2. \A g \in File : Coming(g)' => Coming(g)
      BY <2>1, <3>1, <1>j DEF Coming
    <3>3. Roomy'
      BY <2>1, <3>2 DEF Roomy
    <3> QED BY <2>1, <2>2, <3>3 DEF Checked
  <2> QED BY <2>3, <2>4
<1>10. ASSUME NEW f \in File, Complete(f) PROVE (Total(disk) <= quota /\ Roomy /\ Checked)'
  <2>1. /\ disk' = disk \cup {f} /\ quota' = quota /\ accepted' = accepted
        /\ job'[Recv].pc = "lock" /\ \A u \in Thread \ {Recv} : job'[u] = job[u]
    BY <1>10, <1>j, <1>p, GoesShape DEF Complete, StoreFile
  <2>2. ~At(Recv, "room")'
    BY <2>1 DEF At
  <2>3. \A g \in File : Coming(g)' <=> Coming(g)
    BY <2>1, <1>j DEF Coming
  <2>4. Total(disk \cup {f}) <= quota /\ \A g \in File : Coming(g) => g = f
    <3>1. CASE At(Sched, "await") /\ job[Sched].file = f
      <4>1. Coming(f)
        BY <3>1 DEF At, Coming
      <4> QED BY <4>1 DEF Roomy
    <3>2. CASE ~(At(Sched, "await") /\ job[Sched].file = f)
      <4>1. OnTheirWay = {} /\ Total(disk \cup {f}) <= quota
        <5>1. {f} \in SUBSET File /\ quota \in Nat /\ crowded' = Beside({f}, quota)
          BY <1>10, <3>2, <1>j DEF Complete
        <5> QED BY <5>1, <1>b
      <4> QED BY <4>1, <1>o DEF Coming
    <3> QED BY <3>1, <3>2
  <2>5. Roomy'
    <3>1. disk' \cup {f} = disk'
      BY <2>1
    <3> QED BY <2>1, <2>3, <2>4, <3>1 DEF Roomy
  <2> QED BY <2>1, <2>2, <2>4, <2>5 DEF Checked
<1>11. ASSUME NEW f \in File, OnDelete(f) PROVE Lean /\ Patient
  BY <1>11, <1>j, <1>n, RemovalIsLean DEF OnDelete, At
<1>12. ASSUME NEW f \in File, Solicit(f) PROVE Lean /\ Patient
  <2>1. /\ f \in accepted /\ accepted' = accepted \ {f} /\ UNCHANGED <<disk, quota, meta>>
        /\ job[Sched].pc = "idle"
    BY <1>12 DEF Solicit, At
  <2>2. /\ \A u \in Thread \ {Sched} : job'[u] = job[u]
        /\ \/ job'[Sched].pc = "idle"
           \/ job'[Sched].pc = "await" /\ job'[Sched].file = f
    BY <1>12, <2>1, <1>j, <1>p, GoesShape DEF Solicit
  <2>3. Lean
    BY <2>1, <2>2 DEF Lean, Coming
  <2> QED BY <2>1, <2>2, <2>3, <1>j DEF Patient, At, Unrecorded
<1>13. ASSUME Fetch PROVE Lean /\ Patient
  <2>0. job[Sched].file \in File
    BY <1>13, <1>j DEF Fetch, At, Basis, Aimed
  <2>1. /\ \A u \in Thread \ {Sched} : job'[u] = job[u]
        /\ \/ job'[Sched].pc = "idle"
           \/ job'[Sched].pc = "have" /\ job'[Sched].file = job[Sched].file
    BY <1>13, <2>0, <1>j, <1>p, GoesShape, RestsShape DEF Fetch
  <2>2. job[Sched].pc = "await" /\ UNCHANGED <<disk, quota, meta, accepted>>
    BY <1>13 DEF Fetch, At
  <2>3. Lean
    BY <2>1, <2>2 DEF Lean, Coming
  <2> QED BY <2>1, <2>2, <2>3, <1>j DEF Patient, At, Unrecorded
<1>14. CASE StoreReplica
  <2>0. job[Sched].file \in File /\ job[Sched].pc = "have"
    BY <1>14, <1>j DEF StoreReplica, At, Basis, Aimed
  <2>1. /\ disk' = disk \cup {job[Sched].file} /\ quota' = quota /\ accepted' = accepted
        /\ job'[Sched].pc = "lock" /\ \A u \in Thread \ {Sched} : job'[u] = job[u]
    BY <1>14, <2>0, <1>j, <1>p, GoesShape DEF StoreReplica, StoreFile
  <2>2. Coming(job[Sched].file)
    BY <2>0 DEF Coming
  <2>3. Total(disk') <= quota' /\ \A g \in File : Coming(g) => g = job[Sched].file
    BY <2>0, <2>1, <2>2 DEF Roomy
  <2>4. \A g \in File : Coming(g)' => Coming(g) /\ disk' \cup {g} = disk'
    BY <2>0, <2>1, <2>3 DEF Coming
  <2>5. Roomy'
    BY <2>3, <2>4 DEF Roomy
  <2>6. ~At(Recv, "room")'
    BY <2>0, <2>1, <2>2, <1>j DEF Checked, At
  <2> QED BY <2>3, <2>5, <2>6 DEF Checked
<1>15. ASSUME CleanUpExpired \/ \E f \in File : Select(f) PROVE Lean /\ Patient
  <2>1. /\ \/ job'[Sched].pc = "lock" /\ job'[Sched].op = "expire"
           \/ job'[Sched].pc = "evict"
        /\ \A u \in Thread \ {Sched} : job'[u] = job[u]
    <3>1. CASE CleanUpExpired
      BY <3>1, <1>j, <1>p, GoesShape DEF CleanUpExpired
    <3>2. CASE \E f \in File : Select(f)
      BY <3>2, <1>j, <1>p, GoesShape DEF Select
    <3> QED BY <1>15, <3>1, <3>2
  <2>2. UNCHANGED <<disk, quota, accepted, meta>>
    BY <1>15 DEF CleanUpExpired, Select
  <2>3. ~Unrecorded(Sched)'
    BY <2>1 DEF Unrecorded
  <2> QED BY <2>1, <2>2, <2>3, <1>g, <1>j
<1>16. ASSUME Evict PROVE Lean /\ Patient
  <2>1. job[Sched].file \in File /\ job[Sched].pc = "evict"
    BY <1>16, <1>j DEF Evict, At, Basis, Aimed
  <2> QED BY <1>16, <2>1, <1>j, RemovalIsLean DEF Evict
<1>17. ASSUME Crash PROVE Lean /\ Patient
  <2>1. /\ UNCHANGED <<disk, quota, meta>> /\ accepted' = {}
        /\ \A u \in Thread : job'[u].pc = "idle"
    BY <1>17 DEF Crash, Idle
  <2> QED BY <2>1, <1>j DEF Lean, Coming, Patient, At
<1>18. ASSUME UNCHANGED vars PROVE Lean /\ Patient
  <2>1. /\ disk' = disk /\ quota' = quota /\ accepted' = accepted /\ job' = job /\ meta' = meta
    BY <1>18 DEF vars
  <2> QED BY <2>1 DEF Lean, Coming, Patient, At, Unrecorded
<1> QED
  BY <1>k, <1>1, <1>2, <1>3, <1>4, <1>5, <1>6, <1>7, <1>8, <1>9, <1>10, <1>11, <1>12, <1>13,
     <1>14, <1>15, <1>16, <1>17, <1>18 DEF Next

\* Nothing that was upset is set right again.
LEMMA UprightBefore == [Next]_vars /\ Upright' => Upright
<1> USE DEF history
<1> SUFFICES ASSUME [Next]_vars, stray' = {}, ~crowded' PROVE stray \subseteq stray' /\ ~crowded
  BY DEF Upright
<1>u. \A t, f : stray \subseteq Upset(t, f)
  BY DEF Upset
<1>b. \A S, q : ~Beside(S, q) => ~crowded
  BY DEF Beside
<1>s. ASSUME NEW t, NEW f, NEW op, StoreFile(t, op, f) \/ RemoveFile(t, f) PROVE stray \subseteq stray'
  BY <1>s, <1>u DEF StoreFile, RemoveFile
<1>1. ASSUME NEW t \in Thread, Load(t) \/ LoadFails(t) \/ Truncate(t) \/ Write(t)
      PROVE  stray \subseteq stray' /\ ~crowded
  BY <1>1 DEF Load, LoadFails, Truncate, Write
<1>2. ASSUME NEW t \in Web, NEW f \in File,
             Publish(t, f) \/ Withdraw(t, f) \/ CloseTab(t, f) \/ Wish(t, f)
      PROVE  stray \subseteq stray' /\ ~crowded
  <2>1. stray \subseteq stray'
    BY <1>2, <1>s DEF Publish, Withdraw, CloseTab, Wish
  <2>2. crowded' = crowded \/ \E S, q : crowded' = Beside(S, q)
    BY <1>2 DEF Publish, Withdraw, CloseTab, Wish
  <2> QED BY <2>1, <2>2, <1>b
<1>3. ASSUME NEW t \in Web, NEW q \in Quotas, SetQuota(t, q)
      PROVE  stray \subseteq stray' /\ ~crowded
  BY <1>3, <1>b DEF SetQuota
<1>4. ASSUME NEW f \in File, CheckRoom(f) \/ Solicit(f) \/ Select(f)
      PROVE  stray \subseteq stray' /\ ~crowded
  <2>1. stray' = stray
    BY <1>4 DEF CheckRoom, Solicit, Select
  <2>2. crowded' = crowded \/ crowded' = (crowded \/ OnTheirWay # {})
    BY <1>4 DEF CheckRoom, Solicit, Select
  <2>3. ~crowded
    BY <2>2, Zenon
  <2> QED BY <2>1, <2>3
<1>5. ASSUME NEW f \in File, Complete(f) \/ OnDelete(f)
      PROVE  stray \subseteq stray' /\ ~crowded
  <2>1. stray \subseteq stray'
    BY <1>5, <1>s DEF Complete, OnDelete
  <2>2. crowded' = crowded \/ \E S, q : crowded' = Beside(S, q)
    BY <1>5 DEF Complete, OnDelete
  <2> QED BY <2>1, <2>2, <1>b
<1>6. ASSUME Accept \/ Fetch \/ CleanUpExpired \/ Crash
      PROVE  stray \subseteq stray' /\ ~crowded
  <2>1. stray \subseteq stray'
    BY <1>6 DEF Accept, Fetch, CleanUpExpired, Crash
  <2>2. \/ crowded' = crowded
        \/ crowded' = (crowded \/ OnTheirWay # {job[Recv].file})
    BY <1>6 DEF Accept, Fetch, CleanUpExpired, Crash
  <2>3. ~crowded
    BY <2>2, Zenon
  <2> QED BY <2>1, <2>3
<1>7. ASSUME StoreReplica \/ Evict PROVE stray \subseteq stray' /\ ~crowded
  BY <1>7, <1>s DEF StoreReplica, Evict
<1>8. CASE UNCHANGED vars
  BY <1>8 DEF vars
<1> QED BY <1>1, <1>2, <1>3, <1>4, <1>5, <1>6, <1>7, <1>8 DEF Next

\* Files that come one at a time keep the quota, checked by two readings of a
\* record that other threads rewrite, for every quota, size and number of
\* files, threads, operations and crashes.
THEOREM QuotaHeldHolds == ASSUME IsFiniteSet(File) PROVE Spec => []QuotaHeld
<1>1. Init => Agree /\ QuotaInv
  <2> SUFFICES ASSUME Init PROVE Agree /\ QuotaInv
    OBVIOUS
  <2>1. \A t \in Thread : job[t].pc = "idle"
    BY DEF Init, Idle
  <2>2. RecordedIn(meta) = {}
    BY DEF Init, NoMeta, RecordedIn
  <2>3. Agree
    BY <2>1, <2>2 DEF Init, Agree, Records, Unrecorded
  <2>4. Total(disk) <= quota
    <3>1. Bytes(disk) = {}
      BY DEF Init, Bytes
    <3>2. Total(disk) = 0 /\ quota \in Nat
      BY <3>1, FS_EmptySet, StorageAssumption DEF Init, Total
    <3> QED BY <3>2
  <2>5. Roomy /\ Checked
    BY <2>1 DEF Init, Roomy, Checked, Coming, At, Thread
  <2> QED BY <2>3, <2>4, <2>5 DEF QuotaInv
<1>2. Basis /\ Agree /\ QuotaInv /\ [Next]_vars => QuotaInv'
  BY HeldNext, UprightBefore DEF QuotaInv
<1>3. Basis /\ QuotaInv => QuotaHeld
  BY DEF Upright, QuotaInv, QuotaHeld, Basis, TypeOK
<1> QED BY BasisInit, BasisNext, AgreeNext, <1>1, <1>2, <1>3, PTL DEF Spec

-----------------------------------------------------------------------------
(* The refinement *)

\* A write of the metadata is the step of the ledger that its operation names.
LEMMA WriteIsStep ==
  ASSUME Basis, NEW t \in Thread, Write(t)
  PROVE  Promise!Next
<1> DEFINE f == job[t].file
           op == job[t].op
           kinds(m) == [g \in File |-> {k \in Kind : g \in m[k]}]
<1>0. /\ op \in Modifying /\ (op # "expire" => f \in File) /\ lock = t /\ t # NoThread
      /\ lock' = NoThread /\ readable' = TRUE /\ meta \in Meta
  BY StorageAssumption, WriteKeepsBasis DEF Write, Basis, TypeOK, Thread
<1>1. PICK S \in SUBSET meta["temporary"] : meta' = Modified(meta, op, f, S)
  BY WriteKeepsBasis
<1>2. (~readable /\ lock = NoThread) = FALSE /\ (~readable' /\ lock' = NoThread) = FALSE
  BY <1>0
<1>r. ASSUME NEW R \in SUBSET File, NEW out \in SUBSET Kind, NEW in \in SUBSET Kind,
             \A g \in File, k \in Kind :
               g \in meta'[k] <=> IF g \in R THEN (g \in meta[k] /\ k \notin out) \/ k \in in
                                              ELSE g \in meta[k]
      PROVE  Promise!Reclassify(R, out, in)
  <2>1. \A g \in File :
          {k \in Kind : g \in meta'[k]} =
            IF g \in R THEN ({k \in Kind : g \in meta[k]} \ out) \cup in
                       ELSE {k \in Kind : g \in meta[k]}
    BY <1>r
  <2>2. kinds(meta') = [g \in File |-> IF g \in R THEN (kinds(meta)[g] \ out) \cup in
                                                 ELSE kinds(meta)[g]]
    BY <2>1
  <2> QED BY <2>2, <1>2 DEF Promise!Reclassify
<1>k. Kind = {"own", "replica", "temporary"} /\ meta = [k \in Kind |-> meta[k]]
  BY <1>0 DEF Kind, Meta
<1>3. CASE op = "own"
  <2>1. meta' = [meta EXCEPT !["own"] = @ \cup {f}]
    BY <1>1, <1>3 DEF Modified, With
  <2>2. Promise!Reclassify({f}, {}, {"own"})
    BY <1>0, <1>3, <1>k, <1>r, <2>1
  <2> QED BY <1>0, <1>3, <2>2 DEF Promise!Publish, Promise!Next
<1>4. CASE op = "replica"
  <2>1. meta' = [meta EXCEPT !["temporary"] = @ \ {f}, !["replica"] = @ \cup {f}]
    BY <1>1, <1>4 DEF Modified, Settled
  <2>2. Promise!Reclassify({f}, {"temporary"}, {"replica"})
    BY <1>0, <1>4, <1>k, <1>r, <2>1
  <2> QED BY <1>0, <1>4, <2>2 DEF Promise!Mirror, Promise!Next
<1>5. CASE op = "temporary"
  <2>1. meta' = [meta EXCEPT !["temporary"] = @ \cup {f}]
    BY <1>1, <1>5 DEF Modified, With
  <2>2. Promise!Reclassify({f}, {}, {"temporary"})
    BY <1>0, <1>5, <1>k, <1>r, <2>1
  <2> QED BY <1>0, <1>5, <2>2 DEF Promise!Open, Promise!Next
<1>6. CASE op = "delete"
  <2>1. meta' = [k \in Kind |-> meta[k] \ {f}]
    BY <1>1, <1>6 DEF Modified, Without
  <2>2. Promise!Reclassify({f}, Kind, {})
    BY <1>0, <1>6, <1>k, <1>r, <2>1
  <2> QED BY <1>0, <1>6, <2>2 DEF Promise!Forget, Promise!Next, Promise!Kind, Kind
<1>7. CASE op \in {"settle", "expire"}
  <2>1. meta' = [meta EXCEPT !["temporary"] = @ \ S, !["replica"] = @ \cup S]
    BY <1>1, <1>7 DEF Modified, Settled
  <2>2. S \in SUBSET File
    BY <1>0 DEF Meta, Kind
  <2>3. Promise!Reclassify(S, {"temporary"}, {"replica"})
    BY <1>0, <1>7, <1>k, <1>r, <2>1, <2>2
  <2>4. \A g \in S : "temporary" \in kinds(meta)[g]
    BY <2>2, <1>k
  <2> QED BY <2>2, <2>3, <2>4 DEF Promise!Settle, Promise!Next
<1> QED BY <1>0, <1>3, <1>4, <1>5, <1>6, <1>7 DEF Modifying

\* The lists change only by steps of the ledger: no update is lost or torn,
\* whatever threads run and wherever the process crashes.
THEOREM KeepsLedgerHolds == Spec => KeepsLedger
<1> DEFINE kinds == [f \in File |-> {k \in Kind : f \in meta[k]}]
           lost == ~readable /\ lock = NoThread
<1>1. Init => Promise!Init
  <2> SUFFICES ASSUME Init PROVE Promise!Init
    OBVIOUS
  <2>1. \A f \in File : {k \in Kind : f \in meta[k]} = {}
    BY DEF Init, NoMeta
  <2>2. lost = FALSE
    BY DEF Init
  <2> QED BY <2>1, <2>2 DEF Promise!Init
<1>2. Basis /\ [Next]_vars => [Promise!Next]_<<kinds, lost>>
  <2> SUFFICES ASSUME Basis, [Next]_vars PROVE Promise!Next \/ UNCHANGED <<kinds, lost>>
    OBVIOUS
  <2> USE StorageAssumption DEF history
  <2>s. UNCHANGED <<meta, readable, lock>> => UNCHANGED <<kinds, lost>>
    OBVIOUS
  <2>1. ASSUME NEW t \in Thread, Load(t) PROVE UNCHANGED <<kinds, lost>>
    BY <2>1 DEF Load
  <2>2. ASSUME NEW t \in Thread, Truncate(t) PROVE UNCHANGED <<kinds, lost>>
    BY <2>2 DEF Truncate, At, Basis, TypeOK, Thread
  <2>3. ASSUME NEW t \in Thread, Write(t) PROVE Promise!Next
    BY <2>3, WriteIsStep
  <2>4. CASE Crash
    <3>1. UNCHANGED <<meta, readable>> /\ lock' = NoThread
      BY <2>4 DEF Crash
    <3>2. CASE ~readable /\ lock # NoThread
      <4>1. lost = FALSE /\ lost' = TRUE /\ UNCHANGED kinds
        BY <3>1, <3>2
      <4> QED BY <4>1 DEF Promise!Lose, Promise!Next
    <3>3. CASE readable \/ lock = NoThread
      BY <3>1, <3>3
    <3> QED BY <3>2, <3>3
  <2>5. ASSUME NEW t \in Thread, LoadFails(t) PROVE UNCHANGED <<kinds, lost>>
    BY <2>5, <2>s DEF LoadFails
  <2>6. ASSUME NEW t \in Web, NEW f \in File, Publish(t, f) \/ Withdraw(t, f) \/ CloseTab(t, f) \/ Wish(t, f)
        PROVE  UNCHANGED <<kinds, lost>>
    BY <2>6, <2>s DEF Publish, Withdraw, CloseTab, Wish, StoreFile, RemoveFile
  <2>7. ASSUME NEW t \in Web, NEW q \in Quotas, SetQuota(t, q) PROVE UNCHANGED <<kinds, lost>>
    BY <2>7, <2>s DEF SetQuota
  <2>8. ASSUME NEW f \in File, CheckRoom(f) \/ Complete(f) \/ OnDelete(f) \/ Solicit(f) \/ Select(f)
        PROVE  UNCHANGED <<kinds, lost>>
    BY <2>8, <2>s DEF CheckRoom, Complete, OnDelete, Solicit, Select, StoreFile, RemoveFile
  <2>9. ASSUME Accept \/ Fetch \/ StoreReplica \/ CleanUpExpired \/ Evict
        PROVE  UNCHANGED <<kinds, lost>>
    BY <2>9, <2>s DEF Accept, Fetch, StoreReplica, CleanUpExpired, Evict, StoreFile, RemoveFile
  <2>10. CASE UNCHANGED vars
    BY <2>10, <2>s DEF vars
  <2> QED BY <2>1, <2>2, <2>3, <2>4, <2>5, <2>6, <2>7, <2>8, <2>9, <2>10 DEF Next
<1> QED BY BasisInit, BasisNext, <1>1, <1>2, PTL DEF Spec, KeepsLedger, Promise!Spec
=============================================================================
