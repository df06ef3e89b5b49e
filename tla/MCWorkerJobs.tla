---------------------------- MODULE MCWorkerJobs ----------------------------
EXTENDS WorkerJobs
\* Two of the six kinds of evidence.
MCKeys == <<"rawRecords", "markers">>
=============================================================================
