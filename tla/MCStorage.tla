----------------------------- MODULE MCStorage ------------------------------
EXTENDS Storage, TLC

CONSTANTS mine, small, large, recv, sched, web

MCSize == (mine :> 1) @@ (small :> 1) @@ (large :> 2)
=============================================================================
