----------------------------- MODULE Registry ------------------------------
(***************************************************************************)
(* One node's file registry, src/Server/file_registry.py: the tables files *)
(* and replicas of registry.db, and the dictionary of entries in front of  *)
(* them.  Operators only; each is a critical section of the registry's     *)
(* lock, and module Gossip puts several registries together.               *)
(*                                                                         *)
(* A file id is the hash of content, author and timestamp, so all entries  *)
(* of one id carry the same timestamp, author and predecessor: these are   *)
(* functions of the file, and no part of an entry here.                    *)
(***************************************************************************)
EXTENDS Integers

CONSTANTS File, Node,
          NoFile,    \* the empty previous_file_id
          Prev       \* previous_file_id of each file

ASSUME RegistryAssumption == NoFile \notin File /\ Prev \in [File -> File \cup {NoFile}]

\* A row of files, an entry of the cache, and a registry: the two tables and
\* the cache.  The list of replicas of an entry is kept as the set of its nodes.
NoRow == [count |-> -1, deleted |-> TRUE]
NoEntry == [count |-> -1, nodes |-> {}]
Row == [count : Nat, deleted : BOOLEAN]
Entry == [count : Nat, nodes : SUBSET Node]
RegistryState == [row   : [File -> Row \cup {NoRow}],
                  reps  : SUBSET (File \X Node),
                  cache : [File -> Entry \cup {NoEntry}]]

EmptyRegistry == [row   |-> [f \in File |-> NoRow],
                  reps  |-> {},
                  cache |-> [f \in File |-> NoEntry]]

Known(r) == {f \in File : r.cache[f] # NoEntry}
HostsOf(r, f) == {n \in Node : <<f, n>> \in r.reps}

-----------------------------------------------------------------------------
\* Some entries, at most one per file: what a response carries, or add takes.
EntrySet == [File -> Entry \cup {NoEntry}]
Only(f, count, nodes) ==
  [g \in File |-> IF g = f THEN [count |-> count, nodes |-> nodes] ELSE NoEntry]
Among(S, e) == [f \in File |-> IF f \in S THEN e[f] ELSE NoEntry]

\* add, for each of the entries: INSERT OR REPLACE of the row, INSERT OR IGNORE
\* of the replicas (older ones stay in the table), and the entry itself, with
\* the replicas it came with, into the cache.
AddAll(r, e) ==
  [row   |-> [f \in File |-> IF e[f] = NoEntry THEN r.row[f]
                ELSE [count |-> e[f].count, deleted |-> FALSE]],
   reps  |-> r.reps \cup {x \in File \X Node : x[2] \in e[x[1]].nodes},
   cache |-> [f \in File |-> IF e[f] = NoEntry THEN r.cache[f] ELSE e[f]]]

\* update and merge_delta: only what the cache does not have, since a known
\* entry has the same timestamp.
Merge(r, e) == AddAll(r, Among(File \ Known(r), e))

\* UPDATE files SET ..., which does nothing where there is no row.
Marked(row) == IF row = NoRow THEN NoRow ELSE [count |-> row.count, deleted |-> TRUE]
Counted(row, c) == IF row = NoRow THEN NoRow ELSE [count |-> c, deleted |-> row.deleted]

\* A plausible slip: what is marked in the table stays in the cache.
MarkDeletedKeepsCache(r, f) ==
  [row |-> [r.row EXCEPT ![f] = Marked(@)], reps |-> r.reps, cache |-> r.cache]

MarkDeleted(r, f) ==
  [row   |-> [r.row EXCEPT ![f] = Marked(@)],
   reps  |-> r.reps,
   cache |-> [r.cache EXCEPT ![f] = NoEntry]]

\* increment_replica: the count goes up whether or not the replica is new, and
\* the replica is recorded whether or not the file is.
Increment(r, f, n) ==
  [row   |-> [r.row EXCEPT ![f] = Counted(@, @.count + 1)],
   reps  |-> r.reps \cup {<<f, n>>},
   cache |-> [r.cache EXCEPT ![f] = IF @ = NoEntry THEN @
                ELSE [count |-> @.count + 1, nodes |-> @.nodes \cup {n}]]]

\* A plausible slip: counted down for the row and for the list, and no MAX.
LessTwice(c) == c - 2

\* MAX(0, replica_count - 1)
Less(c) == IF c = 0 THEN 0 ELSE c - 1

\* The replicas of node n of the files in S go, and each of the counts with them.
RemoveReplicas(r, S, n) ==
  [row   |-> [f \in File |-> IF f \in S THEN Counted(r.row[f], Less(r.row[f].count))
                ELSE r.row[f]],
   reps  |-> r.reps \ (S \X {n}),
   cache |-> [f \in File |-> IF f \in S /\ r.cache[f] # NoEntry
                THEN [count |-> Less(r.cache[f].count),
                      nodes |-> r.cache[f].nodes \ {n}] ELSE r.cache[f]]]

Decrement(r, f, n) == RemoveReplicas(r, {f}, n)

\* remove_peer_replicas: the files are those the table has a replica row for.
RemovePeer(r, n) == RemoveReplicas(r, {f \in File : <<f, n>> \in r.reps}, n)

\* cleanup_old_versions, for the files in old: known ones that a known file
\* names as its predecessor, and that are past their age.
Superseded(r) == Known(r) \cap {Prev[g] : g \in Known(r)}
CleanUp(r, old) ==
  [row   |-> [f \in File |-> IF f \in old THEN NoRow ELSE r.row[f]],
   reps  |-> {x \in r.reps : x[1] \notin old},
   cache |-> [f \in File |-> IF f \in old THEN NoEntry ELSE r.cache[f]]]

\* A plausible slip: files without a replica are not loaded.
ReloadHosted(r) ==
  [r EXCEPT !.cache = [f \in File |->
     IF r.row[f] # NoRow /\ ~r.row[f].deleted /\ r.row[f].count > 0
     THEN [count |-> r.row[f].count, nodes |-> HostsOf(r, f)] ELSE NoEntry]]

\* A plausible slip: all rows are read.
ReloadDeleted(r) ==
  [r EXCEPT !.cache = [f \in File |-> IF r.row[f] # NoRow
     THEN [count |-> r.row[f].count, nodes |-> HostsOf(r, f)] ELSE NoEntry]]

\* A restart: _load_cache reads the rows that are not deleted.
Reload(r) ==
  [row   |-> r.row,
   reps  |-> r.reps,
   cache |-> [f \in File |-> IF r.row[f] # NoRow /\ ~r.row[f].deleted
                THEN [count |-> r.row[f].count, nodes |-> HostsOf(r, f)] ELSE NoEntry]]

-----------------------------------------------------------------------------
\* The cache tells what the tables tell: the same files, not deleted, with the
\* same counts, and no replica the table does not have.  (The table may have
\* more: see AddAll.)
Coherent(r) ==
  \A f \in File :
    /\ r.cache[f] # NoEntry <=> (r.row[f] # NoRow /\ ~r.row[f].deleted)
    /\ r.cache[f] # NoEntry => /\ r.cache[f].count = r.row[f].count
                               /\ r.cache[f].nodes \subseteq HostsOf(r, f)
=============================================================================
