----------------------------- MODULE DupWindow -----------------------------
(***************************************************************************)
(* The duplicate filter of src/Server/reliable.py.  A receiver keeps, per  *)
(* sending peer, the set received_seqs[peer] of sequence numbers it has    *)
(* accepted and the pointer peer_seq_in[peer] to the newest one; both are  *)
(* the fields of a "window" here.  Only operators: module Reliable runs    *)
(* them inside the protocol.                                               *)
(***************************************************************************)
EXTENDS Integers, FiniteSets

CONSTANTS HalfSeq,   \* half of the sequence number space; 2^31 in the code
          Window     \* SLIDING_WINDOW_SIZE; 256 in the code

ASSUME DupWindowAssumption == /\ HalfSeq \in Nat \ {0}
                              /\ Window \in Nat \ {0}

SeqMod == 2 * HalfSeq
Seq32 == 0 .. SeqMod - 1
NoSeq == -1

\* (a - b) & 0xFFFF_FFFF for two sequence numbers.
Ahead(a, b) == IF a >= b THEN a - b ELSE a - b + SeqMod

\* (s + 1) & 0xFFFF_FFFF
NextSeq(s) == IF s = SeqMod - 1 THEN 0 ELSE s + 1

WindowType == [received : SUBSET Seq32, last : Seq32 \cup {NoSeq}]
EmptyWindow == [received |-> {}, last |-> NoSeq]

\* A plausible slip: only the "behind the pointer" test, so the newest
\* sequence number is not recognised.
IsDuplicateNoSet(w, s) == /\ w.last # NoSeq
                          /\ Ahead(w.last, s) \in 1 .. Window

\* The verdict of is_duplicate: already in the set, or at most Window behind.
IsDuplicate(w, s) == \/ s \in w.received
                     \/ /\ w.last # NoSeq
                        /\ Ahead(w.last, s) \in 1 .. Window

\* The prune: a set that outgrew the window by one keeps the Window elements
\* with the largest (x - s) & 0xFFFF_FFFF, so it loses the smallest one.
Prune(R, s) ==
  IF Cardinality(R) <= Window
  THEN R
  ELSE R \ {CHOOSE x \in R : \A y \in R : Ahead(x, s) <= Ahead(y, s)}

\* What is_duplicate leaves behind when it accepts s.
Accept(w, s) ==
  [received |-> Prune(w.received \cup {s}, s),
   last     |-> IF w.last = NoSeq \/ Ahead(s, w.last) < HalfSeq
                THEN s ELSE w.last]
=============================================================================
