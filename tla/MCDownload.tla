---------------------------- MODULE MCDownload ----------------------------
EXTENDS Download

CONSTANTS h, k, sched, web
=============================================================================
