-------------------------- MODULE RegistryProofs ---------------------------
(***************************************************************************)
(* What the operations of a registry preserve, for all files and nodes:    *)
(* the shape of the registry, the agreement of cache and tables, and the   *)
(* files that are known.                                                   *)
(***************************************************************************)
EXTENDS Registry, TLAPS

LEMMA NoRowIsNoRow == NoRow \notin Row
  BY DEF NoRow, Row

LEMMA NoEntryIsNoEntry == NoEntry \notin Entry
  BY DEF NoEntry, Entry

\* What a lemma below shows of an operation that turns r into s.
Sound(r, s) == /\ s \in RegistryState
               /\ Coherent(r) => Coherent(s)

LEMMA EmptyIsSound == EmptyRegistry \in RegistryState /\ Coherent(EmptyRegistry)
  BY DEF EmptyRegistry, RegistryState, Coherent

LEMMA OnlyIsEntrySet ==
  ASSUME NEW f \in File, NEW count \in Nat, NEW nodes \in SUBSET Node
  PROVE  Only(f, count, nodes) \in EntrySet
  BY DEF Only, EntrySet, Entry

LEMMA AmongIsEntrySet ==
  ASSUME NEW S, NEW e \in EntrySet
  PROVE  Among(S, e) \in EntrySet
  BY DEF Among, EntrySet

LEMMA AddAllSound ==
  ASSUME NEW r \in RegistryState, NEW e \in EntrySet
  PROVE  /\ Sound(r, AddAll(r, e))
         /\ Known(r) \subseteq Known(AddAll(r, e))
<1> DEFINE s == AddAll(r, e)
<1>1. /\ s.row = [f \in File |-> IF e[f] = NoEntry THEN r.row[f]
                   ELSE [count |-> e[f].count, deleted |-> FALSE]]
      /\ s.reps = r.reps \cup {x \in File \X Node : x[2] \in e[x[1]].nodes}
      /\ s.cache = [f \in File |-> IF e[f] = NoEntry THEN r.cache[f] ELSE e[f]]
      /\ s = [row |-> s.row, reps |-> s.reps, cache |-> s.cache]
  BY DEF AddAll
<1> HIDE DEF s
<1>2. ASSUME NEW f \in File, e[f] # NoEntry
      PROVE  e[f] \in Entry
  BY <1>2 DEF EntrySet
<1>3. s \in RegistryState
  <2>1. s.row \in [File -> Row \cup {NoRow}]
    BY <1>1, <1>2 DEF RegistryState, Row, Entry
  <2>2. s.reps \in SUBSET (File \X Node)
    BY <1>1 DEF RegistryState
  <2>3. s.cache \in [File -> Entry \cup {NoEntry}]
    BY <1>1, <1>2 DEF RegistryState
  <2> QED BY <1>1, <2>1, <2>2, <2>3 DEF RegistryState
<1>4. ASSUME Coherent(r), NEW f \in File
      PROVE  /\ s.cache[f] # NoEntry <=> (s.row[f] # NoRow /\ ~s.row[f].deleted)
             /\ s.cache[f] # NoEntry => /\ s.cache[f].count = s.row[f].count
                                        /\ s.cache[f].nodes \subseteq HostsOf(s, f)
  <2>1. CASE e[f] = NoEntry
    <3>1. s.cache[f] = r.cache[f] /\ s.row[f] = r.row[f]
      BY <1>1, <2>1
    <3>2. HostsOf(r, f) \subseteq HostsOf(s, f)
      BY <1>1 DEF HostsOf
    <3> QED BY <1>4, <3>1, <3>2 DEF Coherent
  <2>2. CASE e[f] # NoEntry
    <3>1. /\ s.cache[f] = e[f]
          /\ s.row[f] = [count |-> e[f].count, deleted |-> FALSE]
          /\ e[f] \in Entry
      BY <1>1, <1>2, <2>2
    <3>2. s.row[f] # NoRow
      BY <3>1 DEF NoRow
    <3>3. e[f].nodes \subseteq HostsOf(s, f)
      BY <1>1, <3>1 DEF HostsOf, Entry
    <3> QED BY <2>2, <3>1, <3>2, <3>3
  <2> QED BY <2>1, <2>2
<1>5. Coherent(r) => Coherent(s)
  BY <1>4 DEF Coherent
<1>6. Known(r) \subseteq Known(s)
  BY <1>1 DEF Known
<1> QED BY <1>3, <1>5, <1>6 DEF Sound, s

LEMMA MergeSound ==
  ASSUME NEW r \in RegistryState, NEW e \in EntrySet
  PROVE  Sound(r, Merge(r, e)) /\ Known(r) \subseteq Known(Merge(r, e))
  BY AddAllSound, AmongIsEntrySet DEF Merge

\* An UPDATE keeps a row a row, and no row none.
LEMMA MarkedType ==
  ASSUME NEW row \in Row \cup {NoRow}
  PROVE  /\ Marked(row) \in Row \cup {NoRow}
         /\ Marked(row) = NoRow <=> row = NoRow
         /\ Marked(row).deleted
  BY DEF Marked, Row, NoRow

LEMMA CountedType ==
  ASSUME NEW row \in Row \cup {NoRow}, NEW c, row # NoRow => c \in Nat
  PROVE  /\ Counted(row, c) \in Row \cup {NoRow}
         /\ Counted(row, c) = NoRow <=> row = NoRow
         /\ Counted(row, c).deleted = row.deleted
         /\ row # NoRow => Counted(row, c).count = c
<1>1. CASE row = NoRow
  BY <1>1 DEF Counted
<1>2. CASE row # NoRow
  <2>1. row \in Row /\ c \in Nat
    BY <1>2
  <2>2. Counted(row, c) = [count |-> c, deleted |-> row.deleted]
    BY <1>2 DEF Counted
  <2>3. Counted(row, c) \in Row
    BY <2>1, <2>2 DEF Row
  <2> QED BY <1>2, <2>2, <2>3, NoRowIsNoRow
<1> QED BY <1>1, <1>2

LEMMA MarkDeletedSound ==
  ASSUME NEW r \in RegistryState, NEW f \in File
  PROVE  /\ Sound(r, MarkDeleted(r, f))
         /\ Known(r) \ {f} \subseteq Known(MarkDeleted(r, f))
<1> DEFINE s == MarkDeleted(r, f)
<1>1. /\ s.reps = r.reps
      /\ s.row = [r.row EXCEPT ![f] = Marked(@)]
      /\ s.cache = [r.cache EXCEPT ![f] = NoEntry]
      /\ s = [row |-> s.row, reps |-> s.reps, cache |-> s.cache]
  BY DEF MarkDeleted
<1> HIDE DEF s
<1>2. /\ \A g \in File : g # f => s.row[g] = r.row[g] /\ s.cache[g] = r.cache[g]
      /\ s.cache[f] = NoEntry /\ s.row[f] = Marked(r.row[f])
  BY <1>1 DEF RegistryState
<1>3. r.row[f] \in Row \cup {NoRow}
  BY DEF RegistryState
<1>4. s \in RegistryState
  <2>1. s.row \in [File -> Row \cup {NoRow}]
    BY <1>1, <1>3, MarkedType DEF RegistryState
  <2>2. s.cache \in [File -> Entry \cup {NoEntry}]
    BY <1>1 DEF RegistryState
  <2> QED BY <1>1, <2>1, <2>2 DEF RegistryState
<1>5. Coherent(r) => Coherent(s)
  <2>1. s.row[f].deleted
    BY <1>2, <1>3, MarkedType
  <2>2. \A g \in File : HostsOf(s, g) = HostsOf(r, g)
    BY <1>1 DEF HostsOf
  <2> QED BY <1>2, <2>1, <2>2 DEF Coherent
<1>6. Known(r) \ {f} \subseteq Known(s)
  BY <1>2 DEF Known
<1> QED BY <1>4, <1>5, <1>6 DEF Sound, s

LEMMA IncrementSound ==
  ASSUME NEW r \in RegistryState, NEW f \in File, NEW n \in Node
  PROVE  Sound(r, Increment(r, f, n)) /\ Known(Increment(r, f, n)) = Known(r)
<1> DEFINE s == Increment(r, f, n)
           more == [count |-> r.cache[f].count + 1, nodes |-> r.cache[f].nodes \cup {n}]
<1>1. /\ s.reps = r.reps \cup {<<f, n>>}
      /\ s.row = [r.row EXCEPT ![f] = Counted(@, @.count + 1)]
      /\ s.cache = [r.cache EXCEPT ![f] = IF @ = NoEntry THEN @
                      ELSE [count |-> @.count + 1, nodes |-> @.nodes \cup {n}]]
      /\ s = [row |-> s.row, reps |-> s.reps, cache |-> s.cache]
  BY DEF Increment
<1> HIDE DEF s
<1>2. /\ \A g \in File : g # f => s.row[g] = r.row[g] /\ s.cache[g] = r.cache[g]
      /\ s.row[f] = Counted(r.row[f], r.row[f].count + 1)
      /\ s.cache[f] = IF r.cache[f] = NoEntry THEN NoEntry ELSE more
  BY <1>1 DEF RegistryState
<1>3. /\ s.row[f] \in Row \cup {NoRow}
      /\ s.row[f] = NoRow <=> r.row[f] = NoRow
      /\ s.row[f].deleted = r.row[f].deleted
      /\ r.row[f] # NoRow => s.row[f].count = r.row[f].count + 1
  <2>1. r.row[f] \in Row \cup {NoRow}
    BY DEF RegistryState
  <2>2. r.row[f] # NoRow => r.row[f].count + 1 \in Nat
    BY <2>1 DEF Row
  <2> QED BY <1>2, <2>1, <2>2, CountedType
<1>4. /\ s.cache[f] \in Entry \cup {NoEntry}
      /\ s.cache[f] = NoEntry <=> r.cache[f] = NoEntry
      /\ r.cache[f] # NoEntry => s.cache[f] = more
  <2>1. r.cache[f] \in Entry \cup {NoEntry}
    BY DEF RegistryState
  <2>2. r.cache[f] # NoEntry => more \in Entry
    BY <2>1 DEF Entry
  <2> QED BY <1>2, <2>2, NoEntryIsNoEntry
<1> HIDE DEF more
<1>5. s \in RegistryState
  <2>1. s.row \in [File -> Row \cup {NoRow}]
    BY <1>1, <1>2, <1>3 DEF RegistryState
  <2>2. s.cache \in [File -> Entry \cup {NoEntry}]
    BY <1>1, <1>2, <1>4 DEF RegistryState
  <2>3. s.reps \in SUBSET (File \X Node)
    BY <1>1 DEF RegistryState
  <2> QED BY <1>1, <2>1, <2>2, <2>3 DEF RegistryState
<1>6. Known(s) = Known(r)
  BY <1>2, <1>4 DEF Known
<1>7. ASSUME Coherent(r), NEW g \in File
      PROVE  /\ s.cache[g] # NoEntry <=> (s.row[g] # NoRow /\ ~s.row[g].deleted)
             /\ s.cache[g] # NoEntry => /\ s.cache[g].count = s.row[g].count
                                        /\ s.cache[g].nodes \subseteq HostsOf(s, g)
  <2>1. HostsOf(r, g) \subseteq HostsOf(s, g) /\ (g = f => n \in HostsOf(s, g))
    BY <1>1 DEF HostsOf
  <2>2. CASE g # f
    BY <1>2, <1>7, <2>1, <2>2 DEF Coherent
  <2>3. CASE g = f
    <3>1. s.cache[f] # NoEntry <=> (s.row[f] # NoRow /\ ~s.row[f].deleted)
      BY <1>3, <1>4, <1>7 DEF Coherent
    <3>2. ASSUME s.cache[f] # NoEntry
          PROVE  s.cache[f].count = s.row[f].count /\ s.cache[f].nodes \subseteq HostsOf(s, f)
      <4>1. /\ r.cache[f].count = r.row[f].count
            /\ r.cache[f].nodes \subseteq HostsOf(r, f)
            /\ r.row[f] # NoRow
        BY <1>4, <1>7, <3>2 DEF Coherent
      <4> QED BY <1>3, <1>4, <2>1, <2>3, <3>2, <4>1 DEF more
    <3> QED BY <2>3, <3>1, <3>2
  <2> QED BY <2>2, <2>3
<1>8. Coherent(r) => Coherent(s)
  BY <1>7 DEF Coherent
<1> QED BY <1>5, <1>6, <1>8 DEF Sound, s

LEMMA LessType == ASSUME NEW c \in Nat PROVE Less(c) \in Nat
  BY DEF Less

LEMMA RemoveReplicasSound ==
  ASSUME NEW r \in RegistryState, NEW S \in SUBSET File, NEW n \in Node
  PROVE  /\ Sound(r, RemoveReplicas(r, S, n))
         /\ Known(RemoveReplicas(r, S, n)) = Known(r)
<1> DEFINE s == RemoveReplicas(r, S, n)
<1>1. /\ s.reps = r.reps \ (S \X {n})
      /\ s.row = [f \in File |-> IF f \in S THEN Counted(r.row[f], Less(r.row[f].count))
                   ELSE r.row[f]]
      /\ s.cache = [f \in File |-> IF f \in S /\ r.cache[f] # NoEntry
                     THEN [count |-> Less(r.cache[f].count),
                           nodes |-> r.cache[f].nodes \ {n}] ELSE r.cache[f]]
      /\ s = [row |-> s.row, reps |-> s.reps, cache |-> s.cache]
  BY DEF RemoveReplicas
<1> HIDE DEF s
<1>2. ASSUME NEW f \in File
      PROVE  /\ s.row[f] \in Row \cup {NoRow}
             /\ r.row[f] = NoRow <=> s.row[f] = NoRow
             /\ r.row[f].deleted = s.row[f].deleted
             /\ r.row[f] # NoRow => s.row[f].count = IF f \in S THEN Less(r.row[f].count)
                                                     ELSE r.row[f].count
  <2>1. r.row[f] \in Row \cup {NoRow}
    BY DEF RegistryState
  <2>2. r.row[f] # NoRow => Less(r.row[f].count) \in Nat
    BY <2>1, LessType DEF Row
  <2>3. CASE f \in S
    BY <1>1, <2>1, <2>2, <2>3, CountedType
  <2>4. CASE f \notin S
    BY <1>1, <2>1, <2>4
  <2> QED BY <2>3, <2>4
<1>3. ASSUME NEW f \in File
      PROVE  /\ s.cache[f] \in Entry \cup {NoEntry}
             /\ r.cache[f] = NoEntry <=> s.cache[f] = NoEntry
             /\ r.cache[f] # NoEntry =>
                  /\ s.cache[f].count = IF f \in S THEN Less(r.cache[f].count)
                                        ELSE r.cache[f].count
                  /\ s.cache[f].nodes = IF f \in S THEN r.cache[f].nodes \ {n}
                                        ELSE r.cache[f].nodes
  <2>1. r.cache[f] \in Entry \cup {NoEntry}
    BY DEF RegistryState
  <2>2. CASE f \in S /\ r.cache[f] # NoEntry
    <3>1. /\ s.cache[f] = [count |-> Less(r.cache[f].count), nodes |-> r.cache[f].nodes \ {n}]
          /\ r.cache[f] \in Entry
      BY <1>1, <2>1, <2>2
    <3>2. s.cache[f] \in Entry
      BY <3>1, LessType DEF Entry
    <3> QED BY <2>2, <3>1, <3>2, NoEntryIsNoEntry
  <2>3. CASE ~(f \in S /\ r.cache[f] # NoEntry)
    BY <1>1, <2>1, <2>3
  <2> QED BY <2>2, <2>3
<1>4. s \in RegistryState
  <2>1. s.row \in [File -> Row \cup {NoRow}]
    BY <1>1, <1>2
  <2>2. s.cache \in [File -> Entry \cup {NoEntry}]
    BY <1>1, <1>3
  <2>3. s.reps \in SUBSET (File \X Node)
    BY <1>1 DEF RegistryState
  <2> QED BY <1>1, <2>1, <2>2, <2>3 DEF RegistryState
<1>5. Known(s) = Known(r)
  BY <1>3 DEF Known
<1>6. ASSUME Coherent(r), NEW f \in File
      PROVE  /\ s.cache[f] # NoEntry <=> (s.row[f] # NoRow /\ ~s.row[f].deleted)
             /\ s.cache[f] # NoEntry => /\ s.cache[f].count = s.row[f].count
                                        /\ s.cache[f].nodes \subseteq HostsOf(s, f)
  <2>1. s.cache[f] # NoEntry <=> (s.row[f] # NoRow /\ ~s.row[f].deleted)
    BY <1>2, <1>3, <1>6 DEF Coherent
  <2>2. ASSUME s.cache[f] # NoEntry
        PROVE  s.cache[f].count = s.row[f].count
    BY <1>2, <1>3, <1>6, <2>2 DEF Coherent
  <2>3. ASSUME s.cache[f] # NoEntry
        PROVE  s.cache[f].nodes \subseteq HostsOf(s, f)
    <3>1. r.cache[f].nodes \subseteq HostsOf(r, f)
      BY <1>3, <1>6, <2>3 DEF Coherent
    <3>2. HostsOf(s, f) = IF f \in S THEN HostsOf(r, f) \ {n} ELSE HostsOf(r, f)
      BY <1>1 DEF HostsOf
    <3> QED BY <1>3, <2>3, <3>1, <3>2
  <2> QED BY <2>1, <2>2, <2>3
<1>7. Coherent(r) => Coherent(s)
  BY <1>6 DEF Coherent
<1> QED BY <1>4, <1>5, <1>7 DEF Sound, s

LEMMA CleanUpSound ==
  ASSUME NEW r \in RegistryState, NEW old \in SUBSET File
  PROVE  /\ Sound(r, CleanUp(r, old))
         /\ Known(r) \ old \subseteq Known(CleanUp(r, old))
<1> DEFINE s == CleanUp(r, old)
<1>1. /\ s.row = [f \in File |-> IF f \in old THEN NoRow ELSE r.row[f]]
      /\ s.reps = {x \in r.reps : x[1] \notin old}
      /\ s.cache = [f \in File |-> IF f \in old THEN NoEntry ELSE r.cache[f]]
      /\ s = [row |-> s.row, reps |-> s.reps, cache |-> s.cache]
  BY DEF CleanUp
<1> HIDE DEF s
<1>2. s \in RegistryState
  BY <1>1 DEF RegistryState
<1>3. \A f \in File \ old : HostsOf(s, f) = HostsOf(r, f)
  BY <1>1 DEF HostsOf
<1>4. ASSUME Coherent(r), NEW f \in File
      PROVE  /\ s.cache[f] # NoEntry <=> (s.row[f] # NoRow /\ ~s.row[f].deleted)
             /\ s.cache[f] # NoEntry => /\ s.cache[f].count = s.row[f].count
                                        /\ s.cache[f].nodes \subseteq HostsOf(s, f)
  <2>1. CASE f \in old
    <3>1. s.cache[f] = NoEntry /\ s.row[f] = NoRow
      BY <1>1, <2>1
    <3> QED BY <3>1
  <2>2. CASE f \notin old
    <3>1. s.cache[f] = r.cache[f] /\ s.row[f] = r.row[f] /\ HostsOf(s, f) = HostsOf(r, f)
      BY <1>1, <1>3, <2>2
    <3> QED BY <1>4, <3>1 DEF Coherent
  <2> QED BY <2>1, <2>2
<1>5. Coherent(r) => Coherent(s)
  BY <1>4 DEF Coherent
<1>6. Known(r) \ old \subseteq Known(s)
  BY <1>1 DEF Known
<1> QED BY <1>2, <1>5, <1>6 DEF Sound, s

\* A restart of a coherent registry changes neither its files nor its counts.
THEOREM ReloadSound ==
  ASSUME NEW r \in RegistryState, Coherent(r)
  PROVE  /\ Sound(r, Reload(r))
         /\ Known(Reload(r)) = Known(r)
         /\ \A f \in Known(r) : Reload(r).cache[f].count = r.cache[f].count
<1> DEFINE s == Reload(r)
<1>1. /\ s.row = r.row /\ s.reps = r.reps
      /\ s.cache = [f \in File |->
           IF r.row[f] # NoRow /\ ~r.row[f].deleted
           THEN [count |-> r.row[f].count, nodes |-> HostsOf(r, f)] ELSE NoEntry]
      /\ s = [row |-> s.row, reps |-> s.reps, cache |-> s.cache]
  BY DEF Reload, RegistryState
<1> HIDE DEF s
<1>2. ASSUME NEW f \in File, r.row[f] # NoRow, ~r.row[f].deleted
      PROVE  /\ s.cache[f] = [count |-> r.row[f].count, nodes |-> HostsOf(r, f)]
             /\ s.cache[f] \in Entry /\ s.cache[f] # NoEntry
  <2>1. r.row[f] \in Row
    BY <1>2 DEF RegistryState
  <2>2. s.cache[f] = [count |-> r.row[f].count, nodes |-> HostsOf(r, f)]
    BY <1>1, <1>2
  <2>3. s.cache[f] \in Entry
    BY <2>1, <2>2 DEF Row, Entry, HostsOf
  <2> QED BY <2>2, <2>3, NoEntryIsNoEntry
<1>3. s \in RegistryState
  <2>1. s.cache \in [File -> Entry \cup {NoEntry}]
    BY <1>1, <1>2
  <2> QED BY <1>1, <2>1 DEF RegistryState
<1>4. \A f \in File : ~(r.row[f] # NoRow /\ ~r.row[f].deleted) => s.cache[f] = NoEntry
  BY <1>1
<1>5. \A f \in File : HostsOf(s, f) = HostsOf(r, f)
  BY <1>1 DEF HostsOf
<1>6. ASSUME NEW f \in File
      PROVE  /\ s.cache[f] # NoEntry <=> (s.row[f] # NoRow /\ ~s.row[f].deleted)
             /\ s.cache[f] # NoEntry => /\ s.cache[f].count = s.row[f].count
                                        /\ s.cache[f].nodes \subseteq HostsOf(s, f)
  <2>1. CASE r.row[f] # NoRow /\ ~r.row[f].deleted
    <3>1. s.cache[f] = [count |-> r.row[f].count, nodes |-> HostsOf(r, f)]
          /\ s.cache[f] # NoEntry
      BY <1>2, <2>1
    <3> QED BY <1>1, <1>5, <2>1, <3>1
  <2>2. CASE ~(r.row[f] # NoRow /\ ~r.row[f].deleted)
    <3>1. s.cache[f] = NoEntry /\ s.row[f] = r.row[f]
      BY <1>1, <1>4, <2>2
    <3> QED BY <2>2, <3>1
  <2> QED BY <2>1, <2>2
<1>7. Known(s) = Known(r)
  BY <1>2, <1>4 DEF Known, Coherent
<1>8. ASSUME NEW f \in Known(r)
      PROVE  s.cache[f].count = r.cache[f].count
  <2>1. f \in File /\ r.row[f] # NoRow /\ ~r.row[f].deleted
        /\ r.cache[f].count = r.row[f].count
    BY DEF Known, Coherent
  <2>2. s.cache[f] = [count |-> r.row[f].count, nodes |-> HostsOf(r, f)]
    BY <1>2, <2>1
  <2> QED BY <2>1, <2>2
<1>9. Coherent(s)
  BY <1>6 DEF Coherent
<1> QED BY <1>3, <1>7, <1>8, <1>9 DEF Sound, s
=============================================================================
