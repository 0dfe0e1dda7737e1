----------------------------- MODULE MCTransfer -----------------------------
EXTENDS Transfer

CONSTANTS h, sched
=============================================================================
