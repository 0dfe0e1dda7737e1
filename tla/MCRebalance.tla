---------------------------- MODULE MCRebalance -----------------------------
EXTENDS Rebalance

CONSTANTS ann, bob, cid, short, long

MCPrev == [x \in File |-> NoFile]
MCSize == [x \in File |-> IF x = long THEN 3 ELSE 1]
MCAuthor == [x \in File |-> ann]
MCQuota == [x \in Node |-> 3]
=============================================================================
