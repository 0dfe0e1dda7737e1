------------------------------ MODULE MCGossip -----------------------------
(* Small instances of Gossip for TLC: a file and its update by one author, *)
(* and two files of different authors.                                     *)
EXTENDS Gossip

CONSTANTS a, b, f, g

OneAuthor == [x \in File |-> a]
UpdatedBy == [x \in File |-> IF x = g THEN f ELSE NoFile]
TwoAuthors == [x \in File |-> IF x = f THEN a ELSE b]
Unrelated == [x \in File |-> NoFile]
=============================================================================
