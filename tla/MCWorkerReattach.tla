-------------------------- MODULE MCWorkerReattach --------------------------
EXTENDS WorkerReattachLog
=============================================================================
