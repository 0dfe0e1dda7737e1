------------------------------- MODULE Ledger -------------------------------
(***************************************************************************)
(* What StorageManager promises about .metadata.json: every file has a set *)
(* of kinds, each operation reclassifies its own files and no others, in   *)
(* one step, whatever else runs; and a ledger that is lost stays lost.     *)
(* Module Storage, which loads, modifies, truncates and writes, implements *)
(* this.                                                                   *)
(***************************************************************************)
CONSTANT File

VARIABLES kinds,  \* the lists that each file is on
          lost    \* whether the metadata file cannot be read any more

Kind == {"own", "replica", "temporary"}

Init == kinds = [f \in File |-> {}] /\ lost = FALSE

\* The files in S leave the lists in out and join those in in.
Reclassify(S, out, in) ==
  /\ ~lost /\ UNCHANGED lost
  /\ kinds' = [f \in File |-> IF f \in S THEN (kinds[f] \ out) \cup in ELSE kinds[f]]

Publish(f) == Reclassify({f}, {}, {"own"})
Mirror(f)  == Reclassify({f}, {"temporary"}, {"replica"})
Open(f)    == Reclassify({f}, {}, {"temporary"})
Forget(f)  == Reclassify({f}, Kind, {})

\* Temporary replicas become regular ones: one whose tab is closed, or all
\* that have expired.
Settle(S) ==
  /\ \A f \in S : "temporary" \in kinds[f]
  /\ Reclassify(S, {"temporary"}, {"replica"})

Lose == ~lost /\ lost' = TRUE /\ UNCHANGED kinds

Next ==
  \/ \E f \in File : Publish(f) \/ Mirror(f) \/ Open(f) \/ Forget(f)
  \/ \E S \in SUBSET File : Settle(S)
  \/ Lose

Spec == Init /\ [][Next]_<<kinds, lost>>
=============================================================================
