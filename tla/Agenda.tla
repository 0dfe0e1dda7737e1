------------------------------- MODULE Agenda -------------------------------
(***************************************************************************)
(* What the scheduler promises to those who call it: an action waits until *)
(* it is run or withdrawn, one of the two and once only, and the one that  *)
(* is run is due, and none that waits was due earlier or, due at the same  *)
(* time, is more urgent.  Module Scheduler, whose heap keeps withdrawn     *)
(* actions and whose callers interleave with its thread, implements this.  *)
(***************************************************************************)
EXTENDS Naturals

CONSTANT Action   \* records with an id, a time and a priority

VARIABLES waiting,    \* actions to be run
          ran,        \* ids of those that were
          withdrawn,  \* ids of those that will not be
          clock

vars == <<waiting, ran, withdrawn, clock>>

Earlier(a, b) == a.at < b.at \/ (a.at = b.at /\ a.pri < b.pri)
Seen == {a.id : a \in waiting} \cup ran \cup withdrawn

Init == waiting = {} /\ ran = {} /\ withdrawn = {} /\ clock = 0

Add(a) ==
  /\ a.id \notin Seen
  /\ waiting' = waiting \cup {a}
  /\ UNCHANGED <<ran, withdrawn, clock>>

Withdraw(S) ==
  /\ waiting' = waiting \ S
  /\ withdrawn' = withdrawn \cup {a.id : a \in S}
  /\ UNCHANGED <<ran, clock>>

Run(a) ==
  /\ a.at <= clock /\ \A b \in waiting : b.at <= clock => ~Earlier(b, a)
  /\ waiting' = waiting \ {a}
  /\ ran' = ran \cup {a.id}
  /\ UNCHANGED <<withdrawn, clock>>

Pass == clock' = clock + 1 /\ UNCHANGED <<waiting, ran, withdrawn>>

Next ==
  \/ \E a \in Action : Add(a)
  \/ \E S \in SUBSET waiting : Withdraw(S)
  \/ \E a \in waiting : Run(a)
  \/ Pass

Spec == Init /\ [][Next]_vars
=============================================================================
