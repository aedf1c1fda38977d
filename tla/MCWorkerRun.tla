---------------------------- MODULE MCWorkerRun -----------------------------
EXTENDS WorkerRun
=============================================================================
